---- MODULE Spec2Model ----
(***************************************************************************)
(* A model of the chunking and structural-splitting engine of              *)
(* url-to-training-data: src/chunker.py (TextChunker),                     *)
(* src/table_list_splitter.py (TableListSplitter) and the glue in          *)
(* src/data_extraction.py (DataExtractionPipeline).                        *)
(*                                                                         *)
(* A text is a non-empty sequence of lines (what text.split('\n') gives);  *)
(* the empty string is the one-line text <<Blank>>.  A line is a record    *)
(*   k : the kind of line, which decides every regular expression the      *)
(*       code applies to a line;                                           *)
(*   n : a number carried by the line (heading level, part number);        *)
(*   s : for a content line the word counts of its sentences, for a        *)
(*       generated range annotation <<first, last, total, name>>;          *)
(*   id: 0, or the position of the line in the input it came from;         *)
(*   c : the number of characters of the line.                             *)
(* Kinds:                                                                  *)
(*   blank  ""                    atx   "## Title" (n = level)             *)
(*   text   "One. Two."  every sentence ends with . ! or ?                 *)
(*   dash   "---"                 eq    "==="                              *)
(*   star   "* item"              sub   "  * item" (indented 2 or more)    *)
(*   minus  "- item"              num   "1. item"                          *)
(*   plain  "Some words" (no sentence end)                                 *)
(*   bstar  "* **Bold**" (a bullet whose text starts with no word)         *)
(*   bold   "**Name**"            hr    "***"                              *)
(*   trow   "| a | b |"           tsep  "|---|---|"                        *)
(*   synth  "## Content Section"  cont  "**[Continued in Part 2]**"        *)
(*   part   "**[Part N of M - Continued]**"                                *)
(*   bad    "Some words" on which tokenizer.encode raises                  *)
(*   items, rows, groups                                                   *)
(*          "**[Part P: Items X-Y of Z total - name]**" (n = P)            *)
(***************************************************************************)
EXTENDS Integers, Sequences, FiniteSets, TLC

VARIABLES
  pc,          \* the operation that ran last ("start" before any)
  tok,         \* whether _load_tokenizer returned a tokenizer
  frags,       \* the list handed to recombine_by_token_limit
  recombined,  \* the sections the merge loop left
  merged,      \* the sections after _merge_orphaned_headings
  msrc,        \* per merged section, the indices in recombined it was made of
  final,       \* the chunks after _split_oversized_chunks
  origin,      \* per final chunk, the index in merged it came from
  cfg,         \* the TableListSplitter settings
  chunk,       \* the chunk handed to the structural stage
  subs,        \* the sub-chunks the structural stage returned
  calls,       \* the calls made, in order
  doc,         \* the cleaned markdown of the page
  grammar,     \* the heading splitter used
  done,        \* how many final chunks process_url has handled
  err,         \* the exception that left the operation, "none" if none
  sub_idx,     \* process_url: how many sub-chunks of the current chunk are done
  attempt,     \* process_url: how many attempts the current sub-chunk has had
  total_records,  \* the running record total of process_url or run_batch_mode
  links,       \* run_batch_mode: all_links, the links of the markdown file
  to_process,  \* run_batch_mode: links_to_process
  processed    \* the lines of the processed-links file

\* The state of the generation loop and of the batch run.
driver == <<sub_idx, attempt, total_records, links, to_process, processed>>

vars == <<pc, tok, frags, recombined, merged, msrc, final, origin,
          cfg, chunk, subs, calls, doc, grammar, done, err, driver>>

\* Before process_url's generation loop and run_batch_mode have started.
DriverIdle ==
  /\ sub_idx = 0
  /\ attempt = 0
  /\ total_records = 0
  /\ links = <<>>
  /\ to_process = <<>>
  /\ processed = <<>>

----------------------------------------------------------------------------
(* Lines and texts *)

RECURSIVE SumSeq(_)
SumSeq(s) == IF s = <<>> THEN 0 ELSE Head(s) + SumSeq(Tail(s))

\* A line of kind k; unless said otherwise its words have five letters, with
\* one more character per word for the space or the mark in front of it.
L(k, n, s) ==
  [k |-> k, n |-> n, s |-> s, id |-> 0,
   c |-> IF k = "blank" THEN 0 ELSE 6 * (SumSeq(s) + 1)]

\* The same line, c characters long.
Sized(l, c) == [l EXCEPT !.c = c]

Blank == L("blank", 0, <<>>)
Empty == <<Blank>>

RECURSIVE Flatten(_)
Flatten(ss) == IF ss = <<>> THEN <<>> ELSE Head(ss) \o Flatten(Tail(ss))

IsBlank(l) == l.k = "blank"

\* str.strip() of a whole text: leading and trailing blank lines go, and the
\* first line loses its indentation (an indented bullet becomes a top-level one).
RECURSIVE DropLeadingBlank(_)
DropLeadingBlank(t) ==
  IF t = <<>> THEN <<>>
  ELSE IF IsBlank(Head(t)) THEN DropLeadingBlank(Tail(t)) ELSE t

RECURSIVE DropTrailingBlank(_)
DropTrailingBlank(t) ==
  IF t = <<>> THEN <<>>
  ELSE IF IsBlank(t[Len(t)]) THEN DropTrailingBlank(SubSeq(t, 1, Len(t) - 1)) ELSE t

Dedent(l) == IF l.k = "sub" THEN [l EXCEPT !.k = "star", !.c = l.c - 2] ELSE l

Strip(t) ==
  LET u == DropTrailingBlank(DropLeadingBlank(t))
  IN IF u = <<>> THEN Empty ELSE <<Dedent(u[1])>> \o Tail(u)

\* a + "\n\n" + b
JoinBlank2(a, b) == a \o <<Blank>> \o b

\* '\n\n'.join(parts), parts a non-empty list of texts
RECURSIVE JoinBlank(_)
JoinBlank(parts) ==
  IF Len(parts) = 1 THEN parts[1]
  ELSE JoinBlank2(parts[1], JoinBlank(Tail(parts)))

\* The words of a line, as str.split() counts them.
Words(l) ==
  CASE l.k = "blank" -> 0
    [] l.k = "synth" -> 3
    [] l.k = "cont"  -> 4
    [] l.k = "part"  -> 6
    [] l.k \in {"items", "rows", "groups"} -> 6
    [] OTHER -> SumSeq(l.s)

RECURSIVE WordCount(_)
WordCount(t) == IF t = <<>> THEN 0 ELSE Words(Head(t)) + WordCount(Tail(t))

----------------------------------------------------------------------------
(* TextChunker *)

max_tokens == 3500

ReserveTokens == 100

OrphanWords == 15

\* tokenizer.encode raises on a text holding a line of kind "bad" (a line the
\* tokenizer cannot encode); on every other text it gives one token per word.
encode_fails(t) == \E i \in 1..Len(t) : t[i].k = "bad"

\* count_tokens without the "no tokenizer" guard and the except branch.
count_tokens_unguarded(t) == WordCount(t)

\* count_tokens: 0 without a tokenizer or for the empty string; otherwise the
\* length of the encoding, and 0 when encode raises (the except branch).
count_tokens(t) ==
  IF ~tok \/ t = Empty THEN 0
  ELSE IF encode_fails(t) THEN 0
  ELSE WordCount(t)

IsAtx(l) == l.k \in {"atx", "synth"}

\* [^\s#].+ : a line that starts with neither white space nor '#'
StartsPlain(l) == l.k \notin {"blank", "atx", "synth", "sub"}

\* [-=]{3,}\s*$
IsUnderline(l) == l.k \in {"dash", "eq"}

\* heading_pattern.match(text): ^(#{1,6}\s+.+$|[^\s#].+\n[-=]{3,}\s*$) at the
\* start of the text.
heading_match(t) ==
  \/ IsAtx(t[1])
  \/ Len(t) >= 2 /\ StartsPlain(t[1]) /\ IsUnderline(t[2])

\* The merge loop with the budget checked on the words themselves, tokenizer or
\* not, encodable or not.
RECURSIVE merge_loop_always_counting(_, _, _, _)
merge_loop_always_counting(chs, i, cur, rec) ==
  IF i > Len(chs)
  THEN IF cur # Empty THEN Append(rec, Strip(cur)) ELSE rec
  ELSE LET c == Strip(chs[i])
       IN IF c = Empty THEN merge_loop_always_counting(chs, i + 1, cur, rec)
          ELSE IF heading_match(c) /\ cur # Empty
               THEN merge_loop_always_counting(chs, i + 1, c, Append(rec, Strip(cur)))
          ELSE IF cur # Empty
               THEN LET combined == Strip(JoinBlank2(cur, c))
                    IN IF WordCount(combined) <= max_tokens
                       THEN merge_loop_always_counting(chs, i + 1, combined, rec)
                       ELSE merge_loop_always_counting(chs, i + 1, c, Append(rec, Strip(cur)))
          ELSE merge_loop_always_counting(chs, i + 1, c, rec)

\* The merge loop with every non-heading fragment appended, budget or not.
RECURSIVE merge_loop_token_blind(_, _, _, _)
merge_loop_token_blind(chs, i, cur, rec) ==
  IF i > Len(chs)
  THEN IF cur # Empty THEN Append(rec, Strip(cur)) ELSE rec
  ELSE LET c == Strip(chs[i])
       IN IF c = Empty THEN merge_loop_token_blind(chs, i + 1, cur, rec)
          ELSE IF heading_match(c) /\ cur # Empty
               THEN merge_loop_token_blind(chs, i + 1, c, Append(rec, Strip(cur)))
          ELSE IF cur # Empty
               THEN merge_loop_token_blind(chs, i + 1, JoinBlank2(cur, c), rec)
          ELSE merge_loop_token_blind(chs, i + 1, c, rec)

\* The merge loop of recombine_by_token_limit from fragment i on, with the
\* section being accumulated (cur, Empty for "") and the sections flushed so far.
RECURSIVE merge_loop(_, _, _, _)
merge_loop(chs, i, cur, rec) ==
  IF i > Len(chs)
  THEN IF cur # Empty THEN Append(rec, Strip(cur)) ELSE rec
  ELSE LET c == Strip(chs[i])
       IN IF c = Empty THEN merge_loop(chs, i + 1, cur, rec)
          ELSE IF heading_match(c) /\ cur # Empty
               THEN merge_loop(chs, i + 1, c, Append(rec, Strip(cur)))
          ELSE IF cur # Empty
               THEN IF tok
                    THEN LET combined == Strip(JoinBlank2(cur, c))
                         IN IF count_tokens(combined) <= max_tokens
                            THEN merge_loop(chs, i + 1, combined, rec)
                            ELSE merge_loop(chs, i + 1, c, Append(rec, Strip(cur)))
                    ELSE merge_loop(chs, i + 1, JoinBlank2(cur, c), rec)
          ELSE merge_loop(chs, i + 1, c, rec)

IsOrphan(t) == WordCount(t) < OrphanWords /\ heading_match(t)

\* _merge_orphaned_headings stepping one section after a merge instead of two.
RECURSIVE merge_orphans_rescanning(_, _)
merge_orphans_rescanning(chs, i) ==
  IF i > Len(chs) THEN <<>>
  ELSE IF IsOrphan(chs[i]) /\ i + 1 <= Len(chs)
       THEN <<[text |-> Strip(JoinBlank2(DropTrailingBlank(chs[i]),
                                         DropLeadingBlank(chs[i + 1]))),
               src |-> <<i, i + 1>>]>>
            \o merge_orphans_rescanning(chs, i + 1)
       ELSE <<[text |-> chs[i], src |-> <<i>>]>> \o merge_orphans_rescanning(chs, i + 1)

\* _merge_orphaned_headings from section i on.  Each result carries, beside its
\* text, the indices of the sections it was made of.
RECURSIVE merge_orphans_from(_, _)
merge_orphans_from(chs, i) ==
  IF i > Len(chs) THEN <<>>
  ELSE IF IsOrphan(chs[i]) /\ i + 1 <= Len(chs)
       THEN <<[text |-> Strip(JoinBlank2(DropTrailingBlank(chs[i]),
                                         DropLeadingBlank(chs[i + 1]))),
               src |-> <<i, i + 1>>]>>
            \o merge_orphans_from(chs, i + 2)
       ELSE <<[text |-> chs[i], src |-> <<i>>]>> \o merge_orphans_from(chs, i + 1)

merge_orphaned_headings(chs) == merge_orphans_from(chs, 1)

Synth == L("synth", 2, <<3>>)

\* _extract_heading from line i on: (heading_line, heading_text, content_start).
RECURSIVE extract_heading_from(_, _)
extract_heading_from(lines, i) ==
  IF i > Len(lines)
  THEN [heading_line |-> <<Synth>>, main_heading |-> <<Synth>>, content_start |-> 1]
  ELSE IF IsAtx(lines[i])
       THEN [heading_line |-> <<lines[i]>>, main_heading |-> <<lines[i]>>,
             content_start |-> i + 1]
  ELSE IF i + 1 <= Len(lines) /\ IsUnderline(lines[i + 1])
       THEN [heading_line |-> <<lines[i], lines[i + 1]>>,
             main_heading |-> <<Dedent(lines[i])>>,
             content_start |-> i + 2]
  ELSE extract_heading_from(lines, i + 1)

extract_heading(lines) == extract_heading_from(lines, 1)

\* stripped.startswith('*') and not line.startswith(' ')
StartsStar(l) ==
  l.k \in {"star", "bstar", "bold", "hr", "cont", "part", "items", "rows", "groups"}

\* _split_into_blocks: the blocks of the content lines, in order.
RECURSIVE split_blocks_from(_, _, _)
split_blocks_from(lines, i, current_block) ==
  IF i > Len(lines)
  THEN IF current_block # <<>> THEN <<current_block>> ELSE <<>>
  ELSE LET line == lines[i]
           should_split ==
             \/ IsAtx(line)
             \/ IsBlank(line) /\ current_block # <<>>
                  /\ ~IsBlank(current_block[Len(current_block)])
             \/ StartsStar(line)
       IN IF should_split /\ current_block # <<>>
          THEN <<current_block>> \o split_blocks_from(lines, i + 1, <<line>>)
          ELSE split_blocks_from(lines, i + 1, Append(current_block, line))

split_into_blocks(lines) == split_blocks_from(lines, 1, <<>>)

\* One sentence of a text line, as a line of its own; the only sentence of a
\* line is the line.
Piece(l, j) ==
  IF Len(l.s) = 1 THEN l
  ELSE [l EXCEPT !.s = <<l.s[j]>>, !.c = 6 * l.s[j]]

\* re.split(r'(?<=[.!?])\s+', block): a split after every sentence end that
\* white space follows.  Only text lines hold sentence ends; any other line
\* runs on into the line after it.
RECURSIVE sentences_from(_, _, _)
sentences_from(block, i, pending) ==
  IF i > Len(block)
  THEN IF pending # <<>> THEN <<pending>> ELSE <<>>
  ELSE LET l == block[i]
       IN IF l.k = "text"
          THEN <<Append(pending, Piece(l, 1))>>
               \o [j \in 1..(Len(l.s) - 1) |-> <<Piece(l, j + 1)>>]
               \o sentences_from(block, i + 1, <<>>)
          ELSE sentences_from(block, i + 1, Append(pending, l))

sentences(block) == sentences_from(block, 1, <<>>)

\* '\n'.join(group) for a non-empty list of texts
JoinLines(group) == Flatten(group)

\* effective_limit with no tokens reserved for the continuation text
effective_limit_no_reserve(main_heading) == max_tokens - count_tokens(main_heading)

effective_limit(main_heading) == max_tokens - (count_tokens(main_heading) + ReserveTokens)

\* The sentence loop of _create_sub_chunks: st holds sub_chunks, the sentence
\* group being filled and its token total.
RECURSIVE sentence_loop(_, _, _, _)
sentence_loop(sents, i, limit, st) ==
  IF i > Len(sents) THEN st
  ELSE LET sent == sents[i]
           sent_tokens == count_tokens(sent)
       IN IF st.sentence_tokens + sent_tokens > limit /\ st.sentence_group # <<>>
          THEN sentence_loop(sents, i + 1, limit,
                 [sub_chunks |-> Append(st.sub_chunks, JoinLines(st.sentence_group)),
                  sentence_group |-> <<sent>>,
                  sentence_tokens |-> sent_tokens])
          ELSE sentence_loop(sents, i + 1, limit,
                 [sub_chunks |-> st.sub_chunks,
                  sentence_group |-> Append(st.sentence_group, sent),
                  sentence_tokens |-> st.sentence_tokens + sent_tokens])

\* The block loop with current_sub_tokens left at 0 after a sentence split.
RECURSIVE block_loop_forgetting(_, _, _, _)
block_loop_forgetting(blocks, i, limit, st) ==
  IF i > Len(blocks)
  THEN IF st.current_sub # <<>>
       THEN Append(st.sub_chunks, JoinBlank(st.current_sub))
       ELSE st.sub_chunks
  ELSE LET block == blocks[i]
           block_tokens == count_tokens(block)
       IN IF block_tokens > limit
          THEN LET flushed == IF st.current_sub # <<>>
                              THEN Append(st.sub_chunks, JoinBlank(st.current_sub))
                              ELSE st.sub_chunks
                   r == sentence_loop(sentences(block), 1, limit,
                          [sub_chunks |-> flushed, sentence_group |-> <<>>,
                           sentence_tokens |-> 0])
               IN block_loop_forgetting(blocks, i + 1, limit,
                    IF r.sentence_group # <<>>
                    THEN [sub_chunks |-> r.sub_chunks,
                          current_sub |-> <<JoinLines(r.sentence_group)>>,
                          current_sub_tokens |-> 0]
                    ELSE [sub_chunks |-> r.sub_chunks, current_sub |-> <<>>,
                          current_sub_tokens |-> 0])
          ELSE IF st.current_sub_tokens + block_tokens > limit
          THEN block_loop_forgetting(blocks, i + 1, limit,
                 [sub_chunks |-> IF st.current_sub # <<>>
                                 THEN Append(st.sub_chunks, JoinBlank(st.current_sub))
                                 ELSE st.sub_chunks,
                  current_sub |-> <<block>>,
                  current_sub_tokens |-> block_tokens])
          ELSE block_loop_forgetting(blocks, i + 1, limit,
                 [sub_chunks |-> st.sub_chunks,
                  current_sub |-> Append(st.current_sub, block),
                  current_sub_tokens |-> st.current_sub_tokens + block_tokens])

\* The block loop of _create_sub_chunks: st holds sub_chunks, current_sub and
\* current_sub_tokens.
RECURSIVE block_loop(_, _, _, _)
block_loop(blocks, i, limit, st) ==
  IF i > Len(blocks)
  THEN IF st.current_sub # <<>>
       THEN Append(st.sub_chunks, JoinBlank(st.current_sub))
       ELSE st.sub_chunks
  ELSE LET block == blocks[i]
           block_tokens == count_tokens(block)
       IN IF block_tokens > limit
          THEN LET flushed == IF st.current_sub # <<>>
                              THEN Append(st.sub_chunks, JoinBlank(st.current_sub))
                              ELSE st.sub_chunks
                   r == sentence_loop(sentences(block), 1, limit,
                          [sub_chunks |-> flushed, sentence_group |-> <<>>,
                           sentence_tokens |-> 0])
               IN block_loop(blocks, i + 1, limit,
                    IF r.sentence_group # <<>>
                    THEN [sub_chunks |-> r.sub_chunks,
                          current_sub |-> <<JoinLines(r.sentence_group)>>,
                          current_sub_tokens |-> r.sentence_tokens]
                    ELSE [sub_chunks |-> r.sub_chunks, current_sub |-> <<>>,
                          current_sub_tokens |-> 0])
          ELSE IF st.current_sub_tokens + block_tokens > limit
          THEN block_loop(blocks, i + 1, limit,
                 [sub_chunks |-> IF st.current_sub # <<>>
                                 THEN Append(st.sub_chunks, JoinBlank(st.current_sub))
                                 ELSE st.sub_chunks,
                  current_sub |-> <<block>>,
                  current_sub_tokens |-> block_tokens])
          ELSE block_loop(blocks, i + 1, limit,
                 [sub_chunks |-> st.sub_chunks,
                  current_sub |-> Append(st.current_sub, block),
                  current_sub_tokens |-> st.current_sub_tokens + block_tokens])

\* The sub-chunk bodies _create_sub_chunks hands to _format_sub_chunks.
pack_blocks(blocks, main_heading) ==
  block_loop(blocks, 1, effective_limit(main_heading),
             [sub_chunks |-> <<>>, current_sub |-> <<>>, current_sub_tokens |-> 0])

ContinuedIn(p) == L("cont", p, <<>>)
PartOf(p, total) == L("part", p, <<total>>)

\* _format_sub_chunks with the heading on the first part only
format_sub_chunks_first_only(sub_chunks, heading_line) ==
  [idx \in 1..Len(sub_chunks) |->
     IF idx = 1
     THEN heading_line \o <<Blank>> \o sub_chunks[idx]
          \o (IF Len(sub_chunks) > 1 THEN <<Blank, ContinuedIn(idx + 1)>> ELSE <<>>)
     ELSE <<PartOf(idx, Len(sub_chunks)), Blank>> \o sub_chunks[idx]]

\* _format_sub_chunks announcing a next part after a lone sub-chunk too
format_sub_chunks_always_continued(sub_chunks, heading_line) ==
  [idx \in 1..Len(sub_chunks) |->
     IF idx = 1
     THEN heading_line \o <<Blank>> \o sub_chunks[idx] \o <<Blank, ContinuedIn(idx + 1)>>
     ELSE heading_line \o <<Blank, PartOf(idx, Len(sub_chunks)), Blank>>
          \o sub_chunks[idx]]

\* _format_sub_chunks counting only the parts after the first as the total
format_sub_chunks_counting_rest(sub_chunks, heading_line) ==
  [idx \in 1..Len(sub_chunks) |->
     IF idx = 1
     THEN heading_line \o <<Blank>> \o sub_chunks[idx]
          \o (IF Len(sub_chunks) > 1 THEN <<Blank, ContinuedIn(idx + 1)>> ELSE <<>>)
     ELSE heading_line \o <<Blank, PartOf(idx, Len(sub_chunks) - 1), Blank>>
          \o sub_chunks[idx]]

\* _format_sub_chunks
format_sub_chunks(sub_chunks, heading_line) ==
  [idx \in 1..Len(sub_chunks) |->
     IF idx = 1
     THEN heading_line \o <<Blank>> \o sub_chunks[idx]
          \o (IF Len(sub_chunks) > 1 THEN <<Blank, ContinuedIn(idx + 1)>> ELSE <<>>)
     ELSE heading_line \o <<Blank, PartOf(idx, Len(sub_chunks)), Blank>>
          \o sub_chunks[idx]]

create_sub_chunks(blocks, heading_line, main_heading) ==
  format_sub_chunks(pack_blocks(blocks, main_heading), heading_line)

\* What _split_oversized_chunks puts into its result for one oversized section.
split_section(section) ==
  LET h == extract_heading(section)
      content_lines == SubSeq(section, h.content_start, Len(section))
  IN create_sub_chunks(split_into_blocks(content_lines), h.heading_line, h.main_heading)

\* _split_oversized_chunks passing a section through only when it is under
\* max_tokens
RECURSIVE split_oversized_from_strict(_, _)
split_oversized_from_strict(chs, i) ==
  IF i > Len(chs) THEN <<>>
  ELSE (IF count_tokens(chs[i]) < max_tokens
        THEN <<[text |-> chs[i], src |-> i]>>
        ELSE LET sub == split_section(chs[i])
             IN [j \in 1..Len(sub) |-> [text |-> sub[j], src |-> i]])
       \o split_oversized_from_strict(chs, i + 1)

\* _split_oversized_chunks from section i on; each result carries the index of
\* the section it came from.
RECURSIVE split_oversized_from(_, _)
split_oversized_from(chs, i) ==
  IF i > Len(chs) THEN <<>>
  ELSE (IF count_tokens(chs[i]) <= max_tokens
        THEN <<[text |-> chs[i], src |-> i]>>
        ELSE LET sub == split_section(chs[i])
             IN [j \in 1..Len(sub) |-> [text |-> sub[j], src |-> i]])
       \o split_oversized_from(chs, i + 1)

split_oversized_chunks(chs) ==
  IF ~tok THEN [i \in 1..Len(chs) |-> [text |-> chs[i], src |-> i]]
  ELSE split_oversized_from(chs, 1)

Texts(rs) == [i \in 1..Len(rs) |-> rs[i].text]
Srcs(rs) == [i \in 1..Len(rs) |-> rs[i].src]

----------------------------------------------------------------------------
(* Inputs of the recombiner *)

MaxFrags == 3

H2 == L("atx", 2, <<2>>)
H3 == L("atx", 3, <<2>>)
Plain(w) == L("plain", 0, <<w>>)
Dash == L("dash", 0, <<1>>)
T1(w) == L("text", 0, <<w>>)
Bad(w) == L("bad", 0, <<w>>)
T2(w1, w2) == L("text", 0, <<w1, w2>>)
T3(w1, w2, w3) == L("text", 0, <<w1, w2, w3>>)
Star(w) == L("star", 0, <<w>>)
Sub(w) == L("sub", 0, <<w>>)

\* Fragments as a heading splitter leaves them: trimmed and not empty.
FragPool ==
  { <<H2>>,
    <<H2, T1(1600)>>,
    <<T1(1600)>>,
    <<H3, T1(3498)>>,
    <<H2, T1(3495), Blank, T2(5, 5)>>,
    <<Plain(2), Dash, T2(1600, 1600)>>,
    <<T1(5), H3, T1(1600), Blank, T1(1600), Blank, T1(1600)>>,
    <<H3, Star(1600), Sub(5), Star(1600), Blank, T1(1600)>>,
    <<H2, T3(1600, 1600, 1600)>>,
    <<T1(3600)>>,
    <<T1(3600), Dash>>,
    <<H2, T1(3499)>>,
    <<H2, Blank, T2(1750, 1749)>>,
    <<Bad(5)>> }

RECURSIVE SeqsUpTo(_, _)
SeqsUpTo(S, n) ==
  IF n = 0 THEN {<<>>}
  ELSE LET shorter == SeqsUpTo(S, n - 1)
       IN shorter \cup {Append(q, x) : q \in {r \in shorter : Len(r) = n - 1}, x \in S}

DefaultCfg ==
  [splitter |-> TRUE,
   items_per_chunk |-> 12, rows_per_chunk |-> 8, groups_per_chunk |-> 8,
   min_long_list |-> 25, min_long_table |-> 15,
   min_nested_groups |-> 5, min_nested_items |-> 12]

Init ==
  /\ pc = "start"
  /\ tok \in BOOLEAN
  /\ frags \in SeqsUpTo(FragPool, MaxFrags)
  /\ recombined = <<>>
  /\ merged = <<>>
  /\ msrc = <<>>
  /\ final = <<>>
  /\ origin = <<>>
  /\ cfg = DefaultCfg
  /\ chunk = Empty
  /\ subs = <<>>
  /\ calls = <<>>
  /\ doc = Empty
  /\ grammar = "none"
  /\ done = 0
  /\ err = "none"
  /\ DriverIdle

\* recombine_by_token_limit(frags)
RecombineByTokenLimit ==
  /\ pc = "start"
  /\ LET rec == IF frags = <<>> THEN <<>> ELSE merge_loop(frags, 1, Empty, <<>>)
         m == merge_orphaned_headings(rec)
         f == split_oversized_chunks(Texts(m))
     IN /\ recombined' = rec
        /\ merged' = Texts(m)
        /\ msrc' = Srcs(m)
        /\ final' = Texts(f)
        /\ origin' = Srcs(f)
  /\ pc' = "recombined"
  /\ UNCHANGED <<driver, tok, frags, cfg, chunk, subs, calls, doc, grammar, done, err>>

\* _split_oversized_chunks(frags), called on its own
SplitOversizedChunks ==
  /\ pc = "start"
  /\ LET f == split_oversized_chunks(frags)
     IN /\ merged' = frags
        /\ final' = Texts(f)
        /\ origin' = Srcs(f)
  /\ pc' = "split"
  /\ UNCHANGED <<driver, tok, frags, recombined, msrc, cfg, chunk, subs, calls, doc, grammar, done,
                 err>>

Next == RecombineByTokenLimit \/ SplitOversizedChunks

Spec == Init /\ [][Next]_vars

----------------------------------------------------------------------------
(* Properties of the recombiner *)

\* Whether final chunk j is a sub-chunk of a section that was split.
WasSplit(j) == tok /\ count_tokens(merged[origin[j]]) > max_tokens

\* The heading of the section final chunk j came from.
HeadingOf(j) == extract_heading(merged[origin[j]])

\* A sub-chunk without what _format_sub_chunks added: the heading line and the
\* blank line after it, the part marker, the continuation marker.
BodyOf(c, hlen) ==
  LET a == SubSeq(c, hlen + 2, Len(c))
      b == IF a # <<>> /\ a[1].k = "part" THEN SubSeq(a, 3, Len(a)) ELSE a
  IN IF b # <<>> /\ b[Len(b)].k = "cont" THEN SubSeq(b, 1, Len(b) - 2) ELSE b

SubChunkBody(j) == BodyOf(final[j], Len(HeadingOf(j).heading_line))

\* A body that is one sentence (re.split gives one piece) of more than lim tokens.
OneSentenceOver(b, lim) == Len(sentences(b)) = 1 /\ count_tokens(b) > lim

\* C1 as stated: with a tokenizer every chunk recombine_by_token_limit returns
\* has count <= max_tokens, except a sub-chunk whose body is one sentence that
\* alone exceeds max_tokens.
C1_BudgetAsStated ==
  (pc = "recombined" /\ tok) =>
    \A j \in 1..Len(final) :
      \/ count_tokens(final[j]) <= max_tokens
      \/ WasSplit(j) /\ OneSentenceOver(SubChunkBody(j), max_tokens)

\* C1 amended: with a tokenizer every chunk recombine_by_token_limit returns has
\* count <= max_tokens, except a sub-chunk whose body is one sentence that alone
\* exceeds the effective budget max_tokens - (heading tokens + 100).
C1_Budget ==
  (pc = "recombined" /\ tok) =>
    \A j \in 1..Len(final) :
      \/ count_tokens(final[j]) <= max_tokens
      \/ WasSplit(j)
           /\ OneSentenceOver(SubChunkBody(j), effective_limit(HeadingOf(j).main_heading))

\* C1 witness: a section was split into a sub-chunk within max_tokens, packed
\* from two blocks, and a sub-chunk over it whose body is one sentence.
C1_Witness ==
  /\ pc = "recombined" /\ tok
  /\ \E j, k \in 1..Len(final) :
       /\ origin[j] = origin[k] /\ WasSplit(j)
       /\ count_tokens(final[j]) <= max_tokens
       /\ Len(sentences(SubChunkBody(j))) >= 2
       /\ count_tokens(final[k]) > max_tokens

\* The content of a text: its non-blank lines in order, a text line sentence by
\* sentence (white space is not content).
RECURSIVE Canon(_)
Canon(t) ==
  IF t = <<>> THEN <<>>
  ELSE LET l == Head(t)
       IN (IF IsBlank(l) THEN <<>>
           ELSE IF l.k = "text" THEN [j \in 1..Len(l.s) |-> Piece(l, j)]
           ELSE <<l>>)
          \o Canon(Tail(t))

\* A section without the heading line _extract_heading took from it.
WithoutHeading(section) ==
  LET h == extract_heading(section)
  IN IF h.heading_line = <<Synth>> THEN section
     ELSE SubSeq(section, 1, h.content_start - Len(h.heading_line) - 1)
          \o SubSeq(section, h.content_start, Len(section))

RECURSIVE BodiesFrom(_, _)
BodiesFrom(i, j) ==
  IF j > Len(final) THEN <<>>
  ELSE (IF origin[j] = i THEN Canon(SubChunkBody(j)) ELSE <<>>) \o BodiesFrom(i, j + 1)

AfterSplit == pc \in {"recombined", "split"} /\ tok

\* C2 as stated: the sub-chunks of a split section hold, in order and once each,
\* every line of the section but the extracted heading line, the lines before
\* the heading line included, and nothing else but the heading and the markers.
C2_NoBodyContentDropped ==
  AfterSplit =>
    \A i \in 1..Len(merged) :
      count_tokens(merged[i]) > max_tokens =>
        BodiesFrom(i, 1) = Canon(WithoutHeading(merged[i]))

\* C10: in _split_oversized_chunks with a tokenizer the output keeps the order
\* of the input sections, and a section within max_tokens is in it exactly once,
\* unchanged.
C10_WithinBudgetUnchanged ==
  AfterSplit =>
    /\ \A j, k \in 1..Len(final) : j < k => origin[j] <= origin[k]
    /\ \A i \in 1..Len(merged) :
         count_tokens(merged[i]) <= max_tokens =>
           /\ Cardinality({j \in 1..Len(final) : origin[j] = i}) = 1
           /\ \A j \in 1..Len(final) : origin[j] = i => final[j] = merged[i]

\* C10 witness: _split_oversized_chunks split one section in two or more and
\* passed a later section, of exactly max_tokens, through.
C10_Witness ==
  /\ pc = "split" /\ tok
  /\ \E i, k \in 1..Len(merged) :
       /\ i < k
       /\ Cardinality({j \in 1..Len(final) : origin[j] = i}) >= 2
       /\ count_tokens(merged[k]) = max_tokens

FinalOf(m) == {j \in 1..Len(final) : origin[j] = m}

\* C9 as stated: every final chunk derived from a section that begins with a
\* heading fragment has that section's heading line as its first line.
C9_OwnHeadingFirst ==
  pc = "recombined" =>
    \A m \in 1..Len(merged) : \A q \in 1..Len(msrc[m]) : \A j \in FinalOf(m) :
      heading_match(recombined[msrc[m][q]]) =>
        final[j][1] = recombined[msrc[m][q]][1]

\* C9 amended: every final chunk derived from a section that begins with a
\* heading fragment starts with a heading: the section's own heading line, or,
\* when the orphan merge appended the section to the orphan heading before it,
\* that orphan's heading line.
C9_HeadingFirst ==
  pc = "recombined" =>
    \A m \in 1..Len(merged) : \A q \in 1..Len(msrc[m]) : \A j \in FinalOf(m) :
      heading_match(recombined[msrc[m][q]]) =>
        /\ heading_match(final[j])
        /\ final[j][1] = recombined[msrc[m][1]][1]
        /\ q > 1 => IsOrphan(recombined[msrc[m][1]])

\* C9 witness: a section that begins with a heading was appended to an orphan
\* heading and the merged section was split into two or more chunks.
C9_Witness ==
  /\ pc = "recombined"
  /\ \E m \in 1..Len(merged) :
       /\ Len(msrc[m]) = 2
       /\ heading_match(recombined[msrc[m][2]])
       /\ Cardinality(FinalOf(m)) >= 2

----------------------------------------------------------------------------
(* TableListSplitter: the line tests of its regular expressions *)

\* ^[*\-+]\s+\w  or  ^\d+\.\s+\w
MainItemKinds == {"star", "minus", "num"}
IsMainItem(l) == l.k \in MainItemKinds

\* ^\*\s+
IsStarBullet(l) == l.k \in {"star", "bstar"}

\* ^\s{2,}\*\s+
IsNestedBullet(l) == l.k = "sub"

\* ^\*\s+\w or ^\*\s+\[ on a line that does not start with white space
IsMainBullet(l) == l.k = "star"

\* line.strip().startswith('|')
TableLineKinds == {"trow", "tsep"}
IsTableLine(l) == l.k \in TableLineKinds

\* ^\|[\s\-:]+\|
IsSeparator(l) == l.k = "tsep"

\* \*\*\[Part \d+ of \d+(?:\s+-\s+Continued)?\]\*\*
IsPartMarker(l) == l.k = "part"

\* ^\s+
IsIndented(l) == l.k = "sub"

Min(a, b) == IF a < b THEN a ELSE b

\* How many lines of t are of one of the kinds.
CountLines(t, kinds) == Cardinality({i \in 1..Len(t) : t[i].k \in kinds})

\* The index of the first line of t of one of the kinds, 0 if there is none.
FirstIndex(t, kinds) ==
  LET S == {i \in 1..Len(t) : t[i].k \in kinds}
  IN IF S = {} THEN 0 ELSE CHOOSE i \in S : \A j \in S : i <= j

----------------------------------------------------------------------------
(* TableListSplitter: the detectors *)

Lookahead == 4

\* The scan of the lines after a '*' bullet for an indented sub-bullet,
\* from line j up to line last.
RECURSIVE nested_ahead(_, _, _)
nested_ahead(t, j, last) ==
  IF j > last THEN FALSE
  ELSE IF IsNestedBullet(t[j]) THEN TRUE
  ELSE IF ~IsBlank(t[j]) /\ ~IsStarBullet(t[j]) THEN FALSE
  ELSE nested_ahead(t, j + 1, last)

\* has_nested_structure looking at the line right after the bullet only
has_nested_structure_next_line(t) ==
  \E i \in 1..Len(t) :
    IsStarBullet(t[i]) /\ nested_ahead(t, i + 1, Min(i + 1, Len(t)))

has_nested_structure(t) ==
  \E i \in 1..Len(t) :
    IsStarBullet(t[i]) /\ nested_ahead(t, i + 1, Min(i + Lookahead, Len(t)))

main_item_count(t) == CountLines(t, MainItemKinds)

detect_long_list_strict(c, t) ==
  IF has_nested_structure(t) THEN FALSE
  ELSE main_item_count(t) > c.min_long_list

detect_long_list(c, t) ==
  IF has_nested_structure(t) THEN FALSE
  ELSE main_item_count(t) >= c.min_long_list

\* stripped.startswith('|') and not a separator
RowKinds == {"trow"}
IsRowLine(l) == l.k \in RowKinds

detect_long_table(c, t) ==
  LET n == CountLines(t, RowKinds)
      rows == IF n > 1 THEN n - 1 ELSE n
  IN rows >= c.min_long_table

\* The loop of detect_nested_bullet_table from line i on: st holds
\* in_group, has_nested, group_count and total_nested_count.  A group is
\* counted when the next main bullet closes it, and only if it has a nested
\* bullet.  Part markers were removed from the text before the loop.
RECURSIVE nested_scan(_, _, _)
nested_scan(t, i, st) ==
  IF i > Len(t) THEN st
  ELSE IF IsMainBullet(t[i])
       THEN nested_scan(t, i + 1,
              [st EXCEPT !.in_group = TRUE, !.has_nested = FALSE,
                         !.group_count = IF st.in_group /\ st.has_nested
                                         THEN st.group_count + 1 ELSE st.group_count])
  ELSE IF IsNestedBullet(t[i]) /\ st.in_group
       THEN nested_scan(t, i + 1, [st EXCEPT !.has_nested = TRUE,
                                             !.total = st.total + 1])
  ELSE nested_scan(t, i + 1, st)

\* detect_nested_bullet_table asking for both thresholds
detect_nested_bullet_table_both(c, t) ==
  LET st == nested_scan(t, 1, [in_group |-> FALSE, has_nested |-> FALSE,
                               group_count |-> 0, total |-> 0])
      group_count == IF st.in_group /\ st.has_nested
                     THEN st.group_count + 1 ELSE st.group_count
  IN group_count >= c.min_nested_groups /\ st.total >= c.min_nested_items

detect_nested_bullet_table(c, t) ==
  LET st == nested_scan(t, 1, [in_group |-> FALSE, has_nested |-> FALSE,
                               group_count |-> 0, total |-> 0])
      group_count == IF st.in_group /\ st.has_nested
                     THEN st.group_count + 1 ELSE st.group_count
  IN group_count >= c.min_nested_groups \/ st.total >= c.min_nested_items

----------------------------------------------------------------------------
(* TableListSplitter: the splitters *)

Range(kind, p, x, y, z, name) ==
  [L(kind, p, <<>>) EXCEPT !.s = <<x, y, z, name>>]

\* '\n'.join(heading_lines).strip()
heading_text(heading_lines) ==
  IF heading_lines = <<>> THEN Empty ELSE Strip(heading_lines)

chunk_end_unclamped(i, k, n) == i + k

\* min(i + per_chunk, len(blocks)) for the batch that starts after block i
chunk_end(i, k, n) == Min(i + k, n)

\* One chunk of a splitter: the heading text if it is not empty, the
\* annotation "\n**[Part ...]**\n" and the body, joined by "\n\n".
result_chunk(htext, note, body) ==
  JoinBlank((IF htext = Empty THEN <<>> ELSE <<htext>>)
            \o << <<Blank, note, Blank>>, body >>)

\* The loop "for i in range(0, len(blocks), k)" from the batch that starts
\* after block i on; fixed is what every chunk repeats in front of its blocks.
RECURSIVE batches(_, _, _, _, _, _, _)
batches(kind, htext, name, fixed, blocks, k, i) ==
  IF i >= Len(blocks) THEN <<>>
  ELSE LET n == Len(blocks)
           last == chunk_end(i, k, n)
           part_num == (i \div k) + 1
           body == fixed \o Flatten(SubSeq(blocks, i + 1, Min(i + k, n)))
       IN <<result_chunk(htext, Range(kind, part_num, i + 1, last, n, name), body)>>
          \o batches(kind, htext, name, fixed, blocks, k, i + k)

\* The item loop of split_long_list from line i on: a main item starts a new
\* item, every other line is appended to the current one.
RECURSIVE list_items_from(_, _, _, _)
list_items_from(t, i, cur, acc) ==
  IF i > Len(t) THEN (IF cur = <<>> THEN acc ELSE Append(acc, cur))
  ELSE IF IsMainItem(t[i])
       THEN list_items_from(t, i + 1, <<t[i]>>,
                            IF cur = <<>> THEN acc ELSE Append(acc, cur))
  ELSE IF cur # <<>> THEN list_items_from(t, i + 1, Append(cur, t[i]), acc)
  ELSE list_items_from(t, i + 1, cur, acc)

list_items(t) ==
  LET start == FirstIndex(t, MainItemKinds)
  IN IF start = 0 THEN <<>> ELSE list_items_from(t, start, <<>>, <<>>)

split_long_list(c, t) ==
  LET start == FirstIndex(t, MainItemKinds)
      items == list_items(t)
  IN IF start = 0 \/ items = <<>> THEN <<t>>
     ELSE batches("items", heading_text(SubSeq(t, 1, start - 1)), 0, <<>>,
                  items, c.items_per_chunk, 0)

\* The table loop of split_long_table from line i on: it stops at the first
\* line that does not start with '|'; the last separator seen is kept, the
\* first other line is the header, the rest are rows.
RECURSIVE table_from(_, _, _)
table_from(t, i, tb) ==
  IF i > Len(t) \/ ~IsTableLine(t[i]) THEN tb
  ELSE IF IsSeparator(t[i]) THEN table_from(t, i + 1, [tb EXCEPT !.separator = <<t[i]>>])
  ELSE IF tb.header = <<>> THEN table_from(t, i + 1, [tb EXCEPT !.header = <<t[i]>>])
  ELSE table_from(t, i + 1, [tb EXCEPT !.rows = Append(tb.rows, <<t[i]>>)])

\* The table read from every '|' line of the chunk, not only the first run.
RECURSIVE table_lines_after(_, _)
table_lines_after(t, i) ==
  IF i > Len(t) THEN <<>>
  ELSE (IF IsTableLine(t[i]) THEN <<t[i]>> ELSE <<>>) \o table_lines_after(t, i + 1)

table_parts_all_runs(t) ==
  LET all == table_lines_after(t, 1)
      none == [header |-> <<>>, separator |-> <<>>, rows |-> <<>>]
  IN IF all = <<>> THEN none ELSE table_from(all, 1, none)

table_parts(t) ==
  LET start == FirstIndex(t, TableLineKinds)
      none == [header |-> <<>>, separator |-> <<>>, rows |-> <<>>]
  IN IF start = 0 THEN none ELSE table_from(t, start, none)

\* The name a table takes from the last line in front of it, as the id of
\* that line (0: no name).
table_name(heading_lines) ==
  IF heading_lines = <<>> THEN 0
  ELSE LET last == heading_lines[Len(heading_lines)]
       IN IF IsBlank(last) THEN 0 ELSE last.id

split_long_table(c, t) ==
  LET start == FirstIndex(t, TableLineKinds)
      tb == table_parts(t)
      heading_lines == SubSeq(t, 1, start - 1)
  IN IF start = 0 \/ tb.rows = <<>> \/ tb.header = <<>> THEN <<t>>
     ELSE batches("rows", heading_text(heading_lines), table_name(heading_lines),
                  tb.header \o tb.separator, tb.rows, c.rows_per_chunk, 0)

\* split_nested_bullet_table's look at the lines after a main bullet, from
\* line j up to line last.
RECURSIVE group_ahead(_, _, _)
group_ahead(t, j, last) ==
  IF j > last THEN FALSE
  ELSE IF IsNestedBullet(t[j]) THEN TRUE
  ELSE IF ~IsBlank(t[j]) /\ ~IsStarBullet(t[j]) /\ ~IsIndented(t[j]) THEN FALSE
  ELSE group_ahead(t, j + 1, last)

\* The first main bullet, not a part marker, that has a nested bullet ahead
\* (0: none).
nested_start(t) ==
  LET S == {i \in 1..Len(t) :
              /\ ~IsPartMarker(t[i])
              /\ IsMainBullet(t[i])
              /\ group_ahead(t, i + 1, Min(i + Lookahead, Len(t)))}
  IN IF S = {} THEN 0 ELSE CHOOSE i \in S : \A j \in S : i <= j

RECURSIVE without_markers(_)
without_markers(t) ==
  IF t = <<>> THEN <<>>
  ELSE IF IsPartMarker(Head(t)) THEN without_markers(Tail(t))
  ELSE <<Head(t)>> \o without_markers(Tail(t))

\* The group loop of split_nested_bullet_table from line i on: a main bullet
\* starts a group, indented bullets and blank lines join it, and any other
\* line that is not blank ends the loop.
RECURSIVE groups_from(_, _, _, _)
groups_from(t, i, cur, acc) ==
  IF i > Len(t) THEN (IF cur = <<>> THEN acc ELSE Append(acc, cur))
  ELSE IF IsPartMarker(t[i]) THEN groups_from(t, i + 1, cur, acc)
  ELSE IF IsMainBullet(t[i])
       THEN groups_from(t, i + 1, <<t[i]>>, IF cur = <<>> THEN acc ELSE Append(acc, cur))
  ELSE IF cur # <<>> /\ (IsNestedBullet(t[i]) \/ IsBlank(t[i]))
       THEN groups_from(t, i + 1, Append(cur, t[i]), acc)
  ELSE IF cur # <<>> /\ ~IsBlank(t[i])
       THEN Append(acc, cur)
  ELSE groups_from(t, i + 1, cur, acc)

nested_groups(t) ==
  LET start == nested_start(t)
  IN IF start = 0 THEN <<>> ELSE groups_from(t, start, <<>>, <<>>)

\* The name a nested table takes from a heading or bold line in front of it.
nested_name(heading_lines) ==
  IF heading_lines = <<>> THEN 0
  ELSE LET last == heading_lines[Len(heading_lines)]
       IN IF last.k \in {"atx", "bold"} THEN last.id ELSE 0

split_nested_bullet_table(c, t) ==
  LET start == nested_start(t)
      groups == nested_groups(t)
      heading_lines == without_markers(SubSeq(t, 1, start - 1))
  IN IF start = 0 \/ groups = <<>> THEN <<t>>
     ELSE batches("groups", heading_text(heading_lines), nested_name(heading_lines),
                  <<>>, groups, c.groups_per_chunk, 0)

----------------------------------------------------------------------------
(* DataExtractionPipeline._handle_long_structures *)

handle_table_first(c, t) ==
  IF ~c.splitter THEN [calls |-> <<>>, out |-> <<t>>]
  ELSE IF detect_long_table(c, t)
       THEN [calls |-> <<"detect_long_table", "split_long_table">>,
             out |-> split_long_table(c, t)]
  ELSE IF detect_nested_bullet_table(c, t)
       THEN [calls |-> <<"detect_long_table", "detect_nested_bullet_table",
                         "split_nested_bullet_table">>,
             out |-> split_nested_bullet_table(c, t)]
  ELSE IF detect_long_list(c, t)
       THEN [calls |-> <<"detect_long_table", "detect_nested_bullet_table",
                         "detect_long_list", "split_long_list">>,
             out |-> split_long_list(c, t)]
  ELSE [calls |-> <<"detect_long_table", "detect_nested_bullet_table",
                    "detect_long_list">>,
        out |-> <<t>>]

handle_long_structures(c, t) ==
  IF ~c.splitter THEN [calls |-> <<>>, out |-> <<t>>]
  ELSE IF detect_nested_bullet_table(c, t)
       THEN [calls |-> <<"detect_nested_bullet_table", "split_nested_bullet_table">>,
             out |-> split_nested_bullet_table(c, t)]
  ELSE IF detect_long_table(c, t)
       THEN [calls |-> <<"detect_nested_bullet_table", "detect_long_table",
                         "split_long_table">>,
             out |-> split_long_table(c, t)]
  ELSE IF detect_long_list(c, t)
       THEN [calls |-> <<"detect_nested_bullet_table", "detect_long_table",
                         "detect_long_list", "split_long_list">>,
             out |-> split_long_list(c, t)]
  ELSE [calls |-> <<"detect_nested_bullet_table", "detect_long_table",
                    "detect_long_list">>,
        out |-> <<t>>]

----------------------------------------------------------------------------
(* Inputs of the structural stage *)

MaxSegs == 3

Num(w) == L("num", 0, <<w>>)
Minus(w) == L("minus", 0, <<w>>)
BStar(w) == L("bstar", 0, <<w>>)
Bold(w) == L("bold", 0, <<w>>)
TRow == L("trow", 0, <<3>>)
TSep == L("tsep", 0, <<1>>)

\* Every line that is not blank gets its position as id.
WithIds(t) == [i \in 1..Len(t) |-> IF IsBlank(t[i]) THEN t[i] ELSE [t[i] EXCEPT !.id = i]]

\* Thresholds small enough for short chunks to be long structures.
SmallCfg ==
  [splitter |-> TRUE,
   items_per_chunk |-> 2, rows_per_chunk |-> 2, groups_per_chunk |-> 2,
   min_long_list |-> 3, min_long_table |-> 3,
   min_nested_groups |-> 2, min_nested_items |-> 3]

\* cpt_raw_mode: the pipeline has no splitter.
NoSplitter == [DefaultCfg EXCEPT !.splitter = FALSE]

SegPool ==
  { <<H2>>,
    <<T1(5)>>,
    <<Blank>>,
    <<Star(3)>>,
    <<Star(3), Star(3)>>,
    <<Star(3), Sub(2), Sub(2)>>,
    <<Num(3), Minus(3)>>,
    <<Minus(3), Sub(2)>>,
    <<BStar(3)>>,
    <<TRow, TSep, TRow, TRow>>,
    <<TRow, TRow>>,
    <<TRow>>,
    <<TSep>> }

ListOf(n) == [i \in 1..n |-> Star(3)]
RowsOf(n) == [i \in 1..n |-> TRow]
TableOf(n) == <<TRow, TSep>> \o RowsOf(n)
GroupsOf(n) == Flatten([i \in 1..n |-> <<Star(3), Sub(2), Sub(2)>>])

\* Chunks for the default thresholds.
LongPool ==
  { <<H2, Blank>> \o ListOf(24),
    <<H2, Blank>> \o ListOf(25),
    <<H2, Blank>> \o ListOf(30),
    <<H2, Blank, Star(3), Sub(2)>> \o ListOf(24),
    <<H2, Blank, Minus(3), Sub(2)>> \o ListOf(24),
    <<H2, Blank>> \o TableOf(14),
    <<H2, Blank>> \o TableOf(20),
    <<Bold(2), Blank>> \o TableOf(15) \o <<Blank, T1(5)>>,
    TableOf(8) \o <<Blank, T1(5), Blank>> \o TableOf(8),
    <<TRow>> \o RowsOf(15),
    <<H2, Blank>> \o GroupsOf(4),
    <<H2>> \o GroupsOf(9),
    <<PartOf(2, 3), Blank, H2, Blank>> \o GroupsOf(5) \o <<Blank, T1(5)>>,
    GroupsOf(5) \o <<Blank>> \o TableOf(15),
    <<T1(5), Blank, T1(5)>> }

Concat(segs) == Flatten(segs)

StructInputs ==
  {[cfg |-> SmallCfg, chunk |-> Strip(WithIds(Concat(q)))] :
      q \in SeqsUpTo(SegPool, MaxSegs) \ {<<>>}}
  \cup {[cfg |-> c, chunk |-> WithIds(t)] : c \in {DefaultCfg, NoSplitter}, t \in LongPool}

InitStruct ==
  /\ pc = "start"
  /\ tok = TRUE
  /\ \E x \in StructInputs : cfg = x.cfg /\ chunk = x.chunk
  /\ frags = <<>>
  /\ recombined = <<>>
  /\ merged = <<>>
  /\ msrc = <<>>
  /\ final = <<>>
  /\ origin = <<>>
  /\ subs = <<>>
  /\ calls = <<>>
  /\ doc = Empty
  /\ grammar = "none"
  /\ done = 0
  /\ err = "none"
  /\ DriverIdle

\* _handle_long_structures(chunk)
HandleLongStructures ==
  /\ pc = "start"
  /\ LET r == handle_long_structures(cfg, chunk)
     IN /\ subs' = r.out
        /\ calls' = r.calls
  /\ pc' = "handled"
  /\ UNCHANGED <<driver, tok, frags, recombined, merged, msrc, final, origin, cfg, chunk, doc,
                 grammar, done, err>>

\* splitter.split_long_list(chunk), called on its own
SplitLongList ==
  /\ pc = "start"
  /\ cfg.splitter
  /\ subs' = split_long_list(cfg, chunk)
  /\ calls' = <<"split_long_list">>
  /\ pc' = "split_list"
  /\ UNCHANGED <<driver, tok, frags, recombined, merged, msrc, final, origin, cfg, chunk, doc,
                 grammar, done, err>>

\* splitter.split_long_table(chunk), called on its own
SplitLongTable ==
  /\ pc = "start"
  /\ cfg.splitter
  /\ subs' = split_long_table(cfg, chunk)
  /\ calls' = <<"split_long_table">>
  /\ pc' = "split_table"
  /\ UNCHANGED <<driver, tok, frags, recombined, merged, msrc, final, origin, cfg, chunk, doc,
                 grammar, done, err>>

\* splitter.split_nested_bullet_table(chunk), called on its own
SplitNestedBulletTable ==
  /\ pc = "start"
  /\ cfg.splitter
  /\ subs' = split_nested_bullet_table(cfg, chunk)
  /\ calls' = <<"split_nested_bullet_table">>
  /\ pc' = "split_nested"
  /\ UNCHANGED <<driver, tok, frags, recombined, merged, msrc, final, origin, cfg, chunk, doc,
                 grammar, done, err>>

NextStruct ==
  HandleLongStructures \/ SplitLongList \/ SplitLongTable \/ SplitNestedBulletTable

SpecStruct == InitStruct /\ [][NextStruct]_vars

----------------------------------------------------------------------------
(* Properties of the structural stage *)

CeilDiv(n, k) == (n + k - 1) \div k

RangeKinds == {"items", "rows", "groups"}

\* The blocks the splitter that ran has extracted, its per-chunk size, and
\* what it repeats in front of the blocks of every chunk.
BlocksOf ==
  CASE pc = "split_list" -> list_items(chunk)
    [] pc = "split_table" -> table_parts(chunk).rows
    [] pc = "split_nested" -> nested_groups(chunk)
    [] OTHER -> <<>>

PerChunk ==
  CASE pc = "split_list" -> cfg.items_per_chunk
    [] pc = "split_table" -> cfg.rows_per_chunk
    [] pc = "split_nested" -> cfg.groups_per_chunk
    [] OTHER -> 1

RepeatedOf ==
  IF pc = "split_table"
  THEN table_parts(chunk).header \o table_parts(chunk).separator
  ELSE <<>>

\* The range annotation of a chunk and the lines after it.
NoteOf(c) == c[FirstIndex(c, RangeKinds)]
AfterNote(c) == SubSeq(c, FirstIndex(c, RangeKinds) + 3, Len(c))

RangesAsStated ==
  LET n == Len(BlocksOf)
      k == PerChunk
  IN /\ Len(subs) = CeilDiv(n, k)
     /\ \A p \in 1..Len(subs) :
          LET X == (p - 1) * k + 1
              Y == Min(p * k, n)
          IN /\ FirstIndex(subs[p], RangeKinds) > 0
             /\ NoteOf(subs[p]).n = p
             /\ SubSeq(NoteOf(subs[p]).s, 1, 3) = <<X, Y, n>>
             /\ AfterNote(subs[p]) = RepeatedOf \o Flatten(SubSeq(BlocksOf, X, Y))
     /\ \A p \in 1..Len(subs) - 1 :
          NoteOf(subs[p + 1]).s[1] = NoteOf(subs[p]).s[2] + 1

DirectSplit == pc \in {"split_list", "split_table", "split_nested"}

\* C4 as stated: a splitter with n extracted blocks and k per chunk returns
\* ceil(n/k) chunks, chunk p annotated (p-1)k+1 .. min(pk, n) of n and holding
\* exactly those blocks in order -- for every n, n = 0 included.
C4_RangesForAnyN == DirectSplit => RangesAsStated

\* C4: a splitter that has extracted n >= 1 blocks returns ceil(n/k) chunks,
\* chunk p is annotated with the range (p-1)k+1 .. min(pk, n) of n, successive
\* ranges are contiguous, and chunk p holds exactly the blocks of its range in
\* their original order.
C4_Ranges == DirectSplit /\ Len(BlocksOf) >= 1 => RangesAsStated

\* 30 items split by 12: Items 1-12, 13-24, 25-30.
C4_Witness ==
  /\ pc = "split_list"
  /\ Len(list_items(chunk)) = 30
  /\ cfg.items_per_chunk = 12
  /\ Len(subs) = 3
  /\ SubSeq(NoteOf(subs[1]).s, 1, 3) = <<1, 12, 30>>
  /\ SubSeq(NoteOf(subs[2]).s, 1, 3) = <<13, 24, 30>>
  /\ SubSeq(NoteOf(subs[3]).s, 1, 3) = <<25, 30, 30>>

Handled == pc = "handled" /\ cfg.splitter

BoundaryAsStated ==
  /\ main_item_count(chunk) = cfg.min_long_list - 1 => subs = <<chunk>>
  /\ main_item_count(chunk) = cfg.min_long_list =>
       Len(subs) = CeilDiv(cfg.min_long_list, cfg.items_per_chunk)

\* C5 as stated: a chunk holding a list (and no table) of min_long_list - 1
\* top-level items is not split and one of min_long_list items is split into
\* ceil(min_long_list / items_per_chunk) chunks, with or without sub-bullets.
C5_BoundaryWithSubBullets ==
  Handled /\ CountLines(chunk, TableLineKinds) = 0 => BoundaryAsStated

\* C5: when neither the nested-bullet nor the long-table detector fires on the
\* chunk and no '*' bullet of it has an indented '*' bullet within the four
\* lines after it (blank lines and '*' bullets between), min_long_list - 1
\* top-level items leave the chunk unsplit and min_long_list items split it
\* into ceil(min_long_list / items_per_chunk) chunks.
C5_Boundary ==
  Handled /\ ~detect_nested_bullet_table(cfg, chunk) /\ ~detect_long_table(cfg, chunk)
          /\ ~has_nested_structure(chunk)
    => BoundaryAsStated

C5_Witness ==
  /\ Handled
  /\ ~has_nested_structure(chunk)
  /\ main_item_count(chunk) = cfg.min_long_list
  /\ calls[Len(calls)] = "split_long_list"
  /\ Len(subs) = CeilDiv(cfg.min_long_list, cfg.items_per_chunk)
  /\ Len(subs) > 1

RowIds(t) == {t[i].id : i \in {j \in 1..Len(t) : IsRowLine(t[j])}}

\* The header of the chunk's table lines is their first row line; the data
\* rows are all the other row lines of the chunk.
HeaderId(t) == t[FirstIndex(t, RowKinds)].id
DataRowIds(t) == RowIds(t) \ {HeaderId(t)}

\* A complete table: the header, a separator, and at least one data row,
\* nothing else.
CompleteTable(lines, header) ==
  /\ Len(lines) >= 3
  /\ lines[1].id = header
  /\ IsSeparator(lines[2])
  /\ \A i \in 3..Len(lines) : IsRowLine(lines[i]) /\ lines[i].id # header

\* C6 as stated: when detect_long_table fires on a chunk, every sub-chunk of
\* split_long_table ends in a complete table (header, separator, its batch of
\* data rows), and every data row of the chunk is in exactly one sub-chunk.
C6_CompleteTablesAllRows ==
  pc = "split_table" /\ detect_long_table(cfg, chunk) =>
    /\ \A p \in 1..Len(subs) :
         /\ FirstIndex(subs[p], RangeKinds) > 0
         /\ CompleteTable(AfterNote(subs[p]), HeaderId(chunk))
    /\ \A r \in DataRowIds(chunk) :
         Cardinality({p \in 1..Len(subs) : r \in RowIds(subs[p])}) = 1

\* C7: _handle_long_structures asks the nested-bullet detector first, the
\* long-table detector only if that did not fire and the long-list detector
\* only if neither fired; it returns the result of the splitter of the first
\* detector that fired and calls no other splitter; if none fired, or there
\* is no splitter, it returns the chunk alone and unchanged.
C7_FirstDetectorWins ==
  pc = "handled" =>
    LET nested == detect_nested_bullet_table(cfg, chunk)
        table == detect_long_table(cfg, chunk)
        list == detect_long_list(cfg, chunk)
        asked == {calls[i] : i \in 1..Len(calls)}
    IN IF ~cfg.splitter THEN subs = <<chunk>> /\ calls = <<>>
       ELSE /\ calls[1] = "detect_nested_bullet_table"
            /\ "detect_long_table" \in asked <=> ~nested
            /\ "detect_long_list" \in asked <=> ~nested /\ ~table
            /\ "split_nested_bullet_table" \in asked <=> nested
            /\ "split_long_table" \in asked <=> ~nested /\ table
            /\ "split_long_list" \in asked <=> ~nested /\ ~table /\ list
            /\ \A i, j \in 1..Len(calls) :
                 i < j /\ calls[i] = "detect_long_table" => calls[j] # "detect_nested_bullet_table"
            /\ \A i, j \in 1..Len(calls) :
                 i < j /\ calls[i] = "detect_long_list" => calls[j] = "split_long_list"
            /\ subs = (IF nested THEN split_nested_bullet_table(cfg, chunk)
                       ELSE IF table THEN split_long_table(cfg, chunk)
                       ELSE IF list THEN split_long_list(cfg, chunk)
                       ELSE <<chunk>>)

\* Both the nested-bullet and the long-table detector fire, and the nested
\* splitter is the one applied.
C7_Witness ==
  /\ Handled
  /\ detect_nested_bullet_table(cfg, chunk)
  /\ detect_long_table(cfg, chunk)
  /\ calls = <<"detect_nested_bullet_table", "split_nested_bullet_table">>
  /\ subs = split_nested_bullet_table(cfg, chunk)
  /\ subs # split_long_table(cfg, chunk)

----------------------------------------------------------------------------
(* TextChunker: the heading splitters of Grammar A and Grammar B *)

\* ^[A-Za-z]
StartsLetter(l) == l.k \in {"text", "plain"}

\* -+$ and -{3,}\s*$
IsDashes(l) == l.k = "dash"

\* The chunks text[start:end].strip() between consecutive split points from
\* line start on, the empty ones left out.
RECURSIVE pieces_from(_, _, _)
pieces_from(t, points, start) ==
  IF start > Len(t) THEN <<>>
  ELSE LET later == {q \in points \cup {Len(t) + 1} : q > start}
           end == CHOOSE q \in later : \A r \in later : q <= r
           piece == Strip(SubSeq(t, start, end - 1))
       IN (IF piece = Empty THEN <<>> ELSE <<piece>>) \o pieces_from(t, points, end)

whole_or_nothing(t) == IF Strip(t) = Empty THEN <<>> ELSE <<Strip(t)>>

\* The matches of (^### |^[A-Za-z][^\n]*\n-+$): the lines "### ..." and the
\* lines that start with a letter and are underlined with dashes.
blackdesert_points(t) ==
  {i \in 1..Len(t) :
     \/ t[i].k = "atx" /\ t[i].n = 3
     \/ StartsLetter(t[i]) /\ i + 1 <= Len(t) /\ IsDashes(t[i + 1])}

chunk_by_headings_blackdesert(t) ==
  IF blackdesert_points(t) = {} THEN whole_or_nothing(t)
  ELSE pieces_from(t, blackdesert_points(t), 1)

\* The matches of the foundry pattern from line i on, found left to right:
\* an ATX heading of level 2 to 4, or a line that starts with neither white
\* space nor '#' together with the dashes under it (the dashes are consumed).
RECURSIVE foundry_points(_, _)
foundry_points(t, i) ==
  IF i > Len(t) THEN {}
  ELSE IF t[i].k = "atx" /\ t[i].n \in 2..4 THEN {i} \cup foundry_points(t, i + 1)
  ELSE IF StartsPlain(t[i]) /\ i + 1 <= Len(t) /\ IsDashes(t[i + 1])
       THEN {i} \cup foundry_points(t, i + 2)
  ELSE foundry_points(t, i + 1)

\* chunk_by_headings_foundry: with no match the whole text; otherwise the
\* chunks are cut and "if chunks and not self._starts_with_heading(...)" looks
\* up a method TextChunker does not have.
chunk_by_headings_foundry(t) ==
  IF foundry_points(t, 1) = {} THEN [err |-> "none", chunks |-> whole_or_nothing(t)]
  ELSE LET chunks == pieces_from(t, foundry_points(t, 1), 1)
       IN IF chunks # <<>> THEN [err |-> "AttributeError", chunks |-> <<>>]
          ELSE [err |-> "none", chunks |-> chunks]

\* recombine_by_token_limit as a function: the sections after the merge
\* loop, after the orphan merge, and the final chunks.
recombine_by_token_limit(chs) ==
  LET rec == IF chs = <<>> THEN <<>> ELSE merge_loop(chs, 1, Empty, <<>>)
      m == merge_orphaned_headings(rec)
      f == split_oversized_chunks(Texts(m))
  IN [recombined |-> rec, merged |-> Texts(m), msrc |-> Srcs(m),
      final |-> Texts(f), origin |-> Srcs(f)]

\* _chunk_content: the strategy the URL's domain selects.
chunk_content(g, t) ==
  LET single == [recombined |-> <<>>, merged |-> <<t>>, msrc |-> <<<<1>>>>,
                 final |-> <<t>>, origin |-> <<1>>]
  IN CASE g = "A" -> [err |-> "none", frags |-> chunk_by_headings_blackdesert(t),
                      out |-> recombine_by_token_limit(chunk_by_headings_blackdesert(t))]
       [] g = "B" -> [err |-> chunk_by_headings_foundry(t).err,
                      frags |-> chunk_by_headings_foundry(t).chunks,
                      out |-> recombine_by_token_limit(chunk_by_headings_foundry(t).chunks)]
       [] OTHER -> [err |-> "none", frags |-> <<>>, out |-> single]

----------------------------------------------------------------------------
(* process_url from step 4 on: chunking by domain, then the structural
   stage on every final chunk *)

MaxDocSegs == 3

DocSegPool ==
  { <<H3>>,
    <<H2>>,
    <<Plain(2), Dash>>,
    <<T1(20)>>,
    <<Blank>>,
    <<Star(3), Star(3), Star(3)>>,
    <<Star(3), Sub(2), Sub(2), Star(3), Sub(2)>>,
    <<TRow, TSep, TRow, TRow, TRow>>,
    <<TRow, TRow>> }

\* Cleaned content: trimmed and not empty.
Docs ==
  {Strip(WithIds(Concat(q))) : q \in SeqsUpTo(DocSegPool, MaxDocSegs)} \ {Empty}

InitPipe ==
  /\ pc = "start"
  /\ tok = TRUE
  /\ doc \in Docs
  /\ grammar \in {"A", "B", "none"}
  /\ cfg = SmallCfg
  /\ chunk = Empty
  /\ frags = <<>>
  /\ recombined = <<>>
  /\ merged = <<>>
  /\ msrc = <<>>
  /\ final = <<>>
  /\ origin = <<>>
  /\ subs = <<>>
  /\ calls = <<>>
  /\ done = 0
  /\ err = "none"
  /\ DriverIdle

\* final_chunks = self._chunk_content(url, cleaned_content); an exception
\* leaves process_url
ChunkContent ==
  /\ pc = "start"
  /\ LET r == chunk_content(grammar, doc)
     IN /\ err' = r.err
        /\ pc' = IF r.err = "none" THEN "chunked" ELSE "failed"
        /\ frags' = r.frags
        /\ recombined' = r.out.recombined
        /\ merged' = r.out.merged
        /\ msrc' = r.out.msrc
        /\ final' = r.out.final
        /\ origin' = r.out.origin
  /\ UNCHANGED <<driver, tok, cfg, chunk, subs, calls, doc, grammar, done>>

\* One round of "for i, chunk in enumerate(final_chunks)": the sub-chunks of
\* _handle_long_structures(chunk) go to the generator.
HandleChunk ==
  /\ pc = "chunked"
  /\ done < Len(final)
  /\ LET r == handle_long_structures(cfg, final[done + 1])
     IN /\ chunk' = final[done + 1]
        /\ subs' = subs \o r.out
        /\ calls' = r.calls
  /\ done' = done + 1
  /\ pc' = IF done + 1 = Len(final) THEN "done" ELSE "chunked"
  /\ UNCHANGED <<driver, tok, frags, recombined, merged, msrc, final, origin, cfg, doc, grammar,
                 err>>

NextPipe == ChunkContent \/ HandleChunk

SpecPipe == InitPipe /\ [][NextPipe]_vars

----------------------------------------------------------------------------
(* Properties of the whole chunking *)

\* The ids of the input lines in t, in order, every id at its first place
\* only: generated lines have no id, repeated context repeats ids.
RECURSIVE FirstIds(_, _)
FirstIds(t, seen) ==
  IF t = <<>> THEN <<>>
  ELSE IF Head(t).id = 0 \/ Head(t).id \in seen THEN FirstIds(Tail(t), seen)
  ELSE <<Head(t).id>> \o FirstIds(Tail(t), seen \cup {Head(t).id})

NoOversized == \A m \in 1..Len(merged) : count_tokens(merged[m]) <= max_tokens

\* C3 as stated: with no oversized section, the sub-chunks handed to the
\* generator hold, once the generated annotations and the repeated heading
\* and table-header lines are left out, every non-blank line of the input
\* exactly once and in order.
C3_EveryLineOnce ==
  pc = "done" /\ NoOversized => FirstIds(Flatten(subs), {}) = FirstIds(doc, {})

\* C8 as stated: no chunking or splitting operation ends in an error.
C8_NoOperationFails == err = "none"

----------------------------------------------------------------------------
(* Further properties of the recombiner *)

IsMarker(l) == l.k \in {"cont", "part"}

\* A section "## Foo" + one paragraph block, max_tokens + 1 tokens in all.
OneParagraphOver(sec) ==
  /\ Len(sec) >= 2
  /\ sec[1] = H2
  /\ count_tokens(sec) = max_tokens + 1
  /\ \A i \in 2..Len(sec) : sec[i].k \in {"text", "plain", "blank"}
  /\ Len(split_into_blocks(SubSeq(sec, 2, Len(sec)))) = 1

SentenceCount(sec) == Len(sentences(split_into_blocks(SubSeq(sec, 2, Len(sec)))[1]))

OneChunkNoMarker(m) ==
  /\ Cardinality(FinalOf(m)) = 1
  /\ \A j \in FinalOf(m) :
       /\ final[j][1] = merged[m][1]
       /\ \A i \in 1..Len(final[j]) : ~IsMarker(final[j][i])

\* C11 as stated: a section "## Foo" of max_tokens + 1 tokens whose body is
\* one paragraph block gives exactly one sub-chunk, heading first and no
\* continuation marker, however many sentences the paragraph has.
C11_OneSubChunkAnySentences ==
  AfterSplit =>
    \A m \in 1..Len(merged) : OneParagraphOver(merged[m]) => OneChunkNoMarker(m)

\* C11: a section "## Foo" of max_tokens + 1 tokens whose body is one
\* paragraph block of a single sentence gives exactly one sub-chunk, with the
\* heading as first line and no continuation or part marker.
C11_OneSubChunk ==
  AfterSplit =>
    \A m \in 1..Len(merged) :
      OneParagraphOver(merged[m]) /\ SentenceCount(merged[m]) = 1 => OneChunkNoMarker(m)

C11_Witness ==
  /\ AfterSplit
  /\ \E m \in 1..Len(merged) :
       /\ OneParagraphOver(merged[m])
       /\ SentenceCount(merged[m]) = 1
       /\ \E j \in FinalOf(m) : final[j] = <<H2, Blank>> \o SubSeq(merged[m], 2, Len(merged[m]))

----------------------------------------------------------------------------
(* TextChunker.chunk_by_headings_markdown (Grammar C) *)

\* len(text): the characters of the lines and the newlines between them.
RECURSIVE LineChars(_)
LineChars(t) == IF t = <<>> THEN 0 ELSE Head(t).c + LineChars(Tail(t))

TextChars(t) == LineChars(t) + Len(t) - 1

\* The defaults of chunk_by_headings_markdown's keyword arguments.
MarkdownDefaults ==
  [min_level |-> 2, include_setext |-> TRUE, include_numbered |-> TRUE,
   numbered_requires_hr |-> TRUE, merge_short_preamble |-> TRUE,
   preamble_threshold_chars |-> 160]

\* ^\s*\*{3,}\s*$
IsHr(l) == l.k = "hr"

\* ^(?P<atx>#{min_level,6})\s+...
atx_points(t, o) ==
  {i \in 1..Len(t) : t[i].k \in {"atx", "synth"} /\ t[i].n \in o.min_level..6}

\* The setext matches from line i on, left to right: a line that starts with
\* neither white space nor '#', underlined with '=' (if min_level <= 1) or
\* with '-' (if min_level <= 2); the underline is consumed.
RECURSIVE setext_points(_, _, _)
setext_points(t, o, i) ==
  IF i + 1 > Len(t) THEN {}
  ELSE IF /\ StartsPlain(t[i])
          /\ \/ o.min_level <= 1 /\ t[i + 1].k = "eq"
             \/ o.min_level <= 2 /\ IsDashes(t[i + 1])
       THEN {i} \cup setext_points(t, o, i + 2)
  ELSE setext_points(t, o, i + 1)

\* The first line after line i that is not blank (Len(t) + 1 if none): the
\* match of a numbered line takes the blank lines after it along.
RECURSIVE after_blanks(_, _)
after_blanks(t, i) ==
  IF i + 1 > Len(t) THEN Len(t) + 1
  ELSE IF IsBlank(t[i + 1]) THEN after_blanks(t, i + 1) ELSE i + 1

HrWindow == 3

\* found_hr: one of the HrWindow lines after the numbered line (and the blank
\* lines under it) is a '***' divider.
found_hr(t, i) ==
  \E j \in after_blanks(t, i)..Min(after_blanks(t, i) + HrWindow - 1, Len(t)) : IsHr(t[j])

numbered_points(t, o) ==
  {i \in 1..Len(t) : t[i].k = "num" /\ (o.numbered_requires_hr => found_hr(t, i))}

markdown_points(t, o) ==
  atx_points(t, o)
  \cup (IF o.include_setext THEN setext_points(t, o, 1) ELSE {})
  \cup (IF o.include_numbered THEN numbered_points(t, o) ELSE {})

\* ^(#{1,6})\s+ | ^[^\n]+\n[-=]{3,}\s*$ | ^\s*\d+\.\s+[^\n]+$ at the start of
\* the text
starts_with_heading_any_or_numbered(t) ==
  \/ IsAtx(t[1])
  \/ Len(t) >= 2 /\ ~IsBlank(t[1]) /\ IsUnderline(t[2])
  \/ t[1].k = "num"

\* chunks[0].rstrip() + "\n\n" + chunks[1].lstrip(), trimmed, in place of the
\* first two chunks
merge_first(chunks) ==
  <<Strip(JoinBlank2(DropTrailingBlank(chunks[1]), DropLeadingBlank(chunks[2])))>>
  \o SubSeq(chunks, 3, Len(chunks))

\* The preamble test with a threshold that leaves a preamble of exactly
\* preamble_threshold_chars characters alone
merge_short_preamble_exclusive(chunks, o) ==
  IF /\ o.merge_short_preamble
     /\ chunks # <<>>
     /\ ~starts_with_heading_any_or_numbered(chunks[1])
     /\ Len(chunks) > 1
     /\ TextChars(chunks[1]) < o.preamble_threshold_chars
  THEN merge_first(chunks)
  ELSE chunks

\* "Merge short preamble with the first heading"
merge_short_preamble(chunks, o) ==
  IF /\ o.merge_short_preamble
     /\ chunks # <<>>
     /\ ~starts_with_heading_any_or_numbered(chunks[1])
     /\ Len(chunks) > 1
     /\ TextChars(chunks[1]) <= o.preamble_threshold_chars
  THEN merge_first(chunks)
  ELSE chunks

\* The chunks before the preamble merge.
markdown_pieces(t, o) ==
  IF Strip(t) = Empty THEN <<>> ELSE pieces_from(t, markdown_points(t, o), 1)

chunk_by_headings_markdown(t, o) == merge_short_preamble(markdown_pieces(t, o), o)

----------------------------------------------------------------------------
(* The heading splitters called on their own *)

MaxHeadSegs == 3

H1 == L("atx", 1, <<2>>)
Hr == L("hr", 0, <<>>)

HeadSegPool ==
  { <<H1>>,
    <<H2>>,
    <<H3>>,
    <<Plain(2), Dash>>,
    <<Blank>>,
    <<T1(5)>>,
    <<Sized(T1(20), 119)>>,
    <<Sized(T1(20), 120)>>,
    <<Sized(T1(20), 160)>>,
    <<Sized(T1(20), 161)>>,
    <<Num(3)>>,
    <<Num(3), Blank, Hr>>,
    <<T1(5), Num(3), T1(5)>> }

\* Any text, blank ones and untrimmed ones included.
HeadDocs == {WithIds(Concat(q)) : q \in SeqsUpTo(HeadSegPool, MaxHeadSegs) \ {<<>>}}

InitHead ==
  /\ pc = "start"
  /\ tok = TRUE
  /\ doc \in HeadDocs
  /\ cfg \in {MarkdownDefaults, [MarkdownDefaults EXCEPT !.merge_short_preamble = FALSE]}
  /\ grammar = "none"
  /\ chunk = Empty
  /\ frags = <<>>
  /\ recombined = <<>>
  /\ merged = <<>>
  /\ msrc = <<>>
  /\ final = <<>>
  /\ origin = <<>>
  /\ subs = <<>>
  /\ calls = <<>>
  /\ done = 0
  /\ err = "none"
  /\ DriverIdle

\* chunker.chunk_by_headings_blackdesert(doc)
ChunkByHeadingsBlackdesert ==
  /\ pc = "start"
  /\ frags' = chunk_by_headings_blackdesert(doc)
  /\ grammar' = "A"
  /\ pc' = "fragments"
  /\ UNCHANGED <<driver, tok, recombined, merged, msrc, final, origin, cfg, chunk, subs, calls, doc,
                 done, err>>

\* chunker.chunk_by_headings_foundry(doc)
ChunkByHeadingsFoundry ==
  /\ pc = "start"
  /\ frags' = chunk_by_headings_foundry(doc).chunks
  /\ err' = chunk_by_headings_foundry(doc).err
  /\ grammar' = "B"
  /\ pc' = IF chunk_by_headings_foundry(doc).err = "none" THEN "fragments" ELSE "failed"
  /\ UNCHANGED <<driver, tok, recombined, merged, msrc, final, origin, cfg, chunk, subs, calls, doc,
                 done>>

\* chunker.chunk_by_headings_markdown(doc, **cfg)
ChunkByHeadingsMarkdown ==
  /\ pc = "start"
  /\ frags' = chunk_by_headings_markdown(doc, cfg)
  /\ grammar' = "C"
  /\ pc' = "fragments"
  /\ UNCHANGED <<driver, tok, recombined, merged, msrc, final, origin, cfg, chunk, subs, calls, doc,
                 done, err>>

NextHead == ChunkByHeadingsBlackdesert \/ ChunkByHeadingsFoundry \/ ChunkByHeadingsMarkdown

SpecHead == InitHead /\ [][NextHead]_vars

----------------------------------------------------------------------------
(* Properties of the heading splitters *)

\* The ids of the lines of t that are not blank, in order.
RECURSIVE Ids(_)
Ids(t) ==
  IF t = <<>> THEN <<>>
  ELSE (IF IsBlank(Head(t)) THEN <<>> ELSE <<Head(t).id>>) \o Ids(Tail(t))

\* The lines at which the splitter that ran detects a heading.
HeadingPoints ==
  CASE grammar = "A" -> blackdesert_points(doc)
    [] grammar = "B" -> foundry_points(doc, 1)
    [] grammar = "C" -> markdown_points(doc, cfg)
    [] OTHER -> {}

\* The fragments are not empty and trimmed, each starts where the document
\* or a detected heading starts, and together they hold every line of the
\* document that is not blank, in order and once; without a heading they are
\* the trimmed text alone, or nothing if the text is blank.
FragmentsPartition ==
  /\ \A f \in 1..Len(frags) : frags[f] # Empty /\ Strip(frags[f]) = frags[f]
  /\ \A f \in 1..Len(frags) :
       frags[f][1].id \in {doc[i].id : i \in HeadingPoints} \cup {Head(Ids(doc))}
  /\ Ids(Flatten(frags)) = Ids(doc)
  /\ HeadingPoints = {} => frags = (IF Strip(doc) = Empty THEN <<>> ELSE <<Strip(doc)>>)

\* C12 as stated: each heading splitter returns such a list of fragments.
C12_EverySplitterPartitions ==
  pc # "start" => err = "none" /\ FragmentsPartition


FoundryPreambleChars == 120

\* The fragments of Grammar B before its preamble merge, and whether the
\* first of them starts at a detected heading.
FoundryPieces == pieces_from(doc, foundry_points(doc, 1), 1)
FoundryStartsWithHeading == FoundryPieces[1][1].id \in {doc[i].id : i \in foundry_points(doc, 1)}

\* C13 as stated: chunk_by_headings_foundry returns its fragments with the
\* first merged into the second (a blank line between) when the first does
\* not start with a heading, a second exists and the first has fewer than 120
\* characters; a first fragment of 120 characters or more stays on its own.
C13_FoundryPreambleMerged ==
  pc # "start" /\ grammar = "B" /\ Len(FoundryPieces) > 1 /\ ~FoundryStartsWithHeading =>
    /\ err = "none"
    /\ TextChars(FoundryPieces[1]) < FoundryPreambleChars => frags = merge_first(FoundryPieces)
    /\ TextChars(FoundryPieces[1]) >= FoundryPreambleChars => frags = FoundryPieces


\* The fragments of Grammar C before its preamble merge.
MarkdownPieces == markdown_pieces(doc, cfg)

\* A first fragment that is a preamble: it starts with no ATX heading, no
\* underlined line and no numbered line.
IsPreamble(f) ==
  /\ f[1].k \notin {"atx", "synth", "num"}
  /\ ~(Len(f) >= 2 /\ f[2].k \in {"dash", "eq"})

ShortPreamble ==
  /\ Len(MarkdownPieces) > 1
  /\ IsPreamble(MarkdownPieces[1])
  /\ TextChars(MarkdownPieces[1]) <= cfg.preamble_threshold_chars

\* C14: with merge_short_preamble on, chunk_by_headings_markdown joins a
\* first fragment that is not heading-like and at most
\* preamble_threshold_chars long (160 included) to the second one, a blank
\* line between, and leaves every later fragment as it was, so the result is
\* one fragment shorter; in every other case the fragments are returned as cut.
C14_PreambleMergedOnce ==
  pc = "fragments" /\ grammar = "C" /\ cfg.merge_short_preamble =>
    IF ShortPreamble
    THEN /\ Len(frags) = Len(MarkdownPieces) - 1
         /\ frags[1] = MarkdownPieces[1] \o <<Blank>> \o MarkdownPieces[2]
         /\ \A i \in 2..Len(frags) : frags[i] = MarkdownPieces[i + 1]
    ELSE frags = MarkdownPieces

\* A preamble of exactly 160 characters is merged, and the fragment after the
\* merged one is kept apart.
C14_Witness ==
  /\ pc = "fragments" /\ grammar = "C" /\ cfg.merge_short_preamble
  /\ ShortPreamble
  /\ TextChars(MarkdownPieces[1]) = 160
  /\ Len(MarkdownPieces) = 3
  /\ Len(frags) = 2


----------------------------------------------------------------------------
(* The two token counters called on their own *)

\* DataGenerator._count_tokens: 0 for the empty string; the length of the
\* encoding when a tokenizer is loaded and encode succeeds; otherwise
\* int(len(text.split()) * 1.3), which is floor(13 * words / 10).
generator_count_tokens(t) ==
  IF t = Empty THEN 0
  ELSE IF tok /\ ~encode_fails(t) THEN WordCount(t)
  ELSE (13 * WordCount(t)) \div 10

MaxCalls == 2

CountTexts ==
  { Empty,
    <<Blank, Blank>>,
    <<T1(1)>>,
    <<T1(3)>>,
    <<T2(3, 4)>>,
    <<H2, T1(9)>>,
    <<Bad(5)>>,
    <<T1(3), Bad(5)>>,
    <<H2, Blank, T1(3499)>>,
    <<T1(3600)>> }

InitCount ==
  /\ pc = "start"
  /\ tok \in BOOLEAN
  /\ chunk \in CountTexts
  /\ doc = Empty
  /\ cfg = DefaultCfg
  /\ grammar = "none"
  /\ frags = <<>>
  /\ recombined = <<>>
  /\ merged = <<>>
  /\ msrc = <<>>
  /\ final = <<>>
  /\ origin = <<>>
  /\ subs = <<>>
  /\ calls = <<>>
  /\ done = 0
  /\ err = "none"
  /\ DriverIdle

\* chunker.count_tokens(chunk)
CountTokens ==
  /\ Len(calls) < MaxCalls
  /\ calls' = Append(calls, [op |-> "count_tokens", out |-> count_tokens(chunk)])
  /\ pc' = "counted"
  /\ UNCHANGED <<driver, tok, frags, recombined, merged, msrc, final, origin, cfg, chunk, subs,
                 doc, grammar, done, err>>

\* generator._count_tokens(chunk)
GeneratorCountTokens ==
  /\ Len(calls) < MaxCalls
  /\ calls' = Append(calls, [op |-> "_count_tokens", out |-> generator_count_tokens(chunk)])
  /\ pc' = "counted"
  /\ UNCHANGED <<driver, tok, frags, recombined, merged, msrc, final, origin, cfg, chunk, subs,
                 doc, grammar, done, err>>

NextCount == CountTokens \/ GeneratorCountTokens

SpecCount == InitCount /\ [][NextCount]_vars

----------------------------------------------------------------------------
(* Properties of the token counters *)

\* The counter cannot use the tokenizer on the text: none is loaded, or encode
\* raises.
NoEncoding == ~tok \/ encode_fails(chunk)

----------------------------------------------------------------------------
(* Properties of the merge loop *)

\* The fragment as the loop sees it: chunk.strip()
FragText(i) == Strip(frags[i])

IsHeadingStart(i) == heading_match(FragText(i))

\* Fragments a..b joined with blank lines.
RECURSIVE JoinRange(_, _)
JoinRange(a, b) ==
  IF a >= b THEN FragText(a) ELSE JoinBlank2(JoinRange(a, b - 1), FragText(b))

\* A way to cut the fragment list into sections: the set B of the fragments,
\* other than the first, that start a section.
CutSets == SUBSET (2..Len(frags))

Starts(B) == B \cup {1}

NthStart(B, k) == CHOOSE b \in Starts(B) : Cardinality({x \in Starts(B) : x < b}) = k - 1

NthEnd(B, k) ==
  IF k = Cardinality(Starts(B)) THEN Len(frags) ELSE NthStart(B, k + 1) - 1

\* The sections of the cut B: whole consecutive fragments, each once, in order.
SectionsBy(B) ==
  IF frags = <<>> THEN <<>>
  ELSE [k \in 1..Cardinality(Starts(B)) |-> JoinRange(NthStart(B, k), NthEnd(B, k))]

\* The first fragment of the section fragment i would extend.
SectionStart(B, i) ==
  CHOOSE b \in Starts(B) : b < i /\ \A x \in Starts(B) : x < i => x <= b

\* The text the merge check of fragment i counts: the section so far, a blank
\* line, the fragment.
Combined(B, i) == JoinRange(SectionStart(B, i), i)

HeadingCuts == {i \in 2..Len(frags) : IsHeadingStart(i)}

\* C16: without a tokenizer the sections are cut at the heading-start fragments
\* and nowhere else, whatever the size of what is merged, and
\* _split_oversized_chunks returns its input unchanged; with a tokenizer, a
\* non-heading fragment whose merge check cannot be counted is appended to the
\* current section by plain concatenation, and the fragments after it are
\* still processed.
C16_TokenBlindMerge ==
  /\ (pc = "recombined" /\ ~tok) => recombined = SectionsBy(HeadingCuts)
  /\ (pc \in {"recombined", "split"} /\ ~tok) => final = merged
  /\ (pc = "recombined" /\ tok) =>
       \E B \in CutSets :
         /\ recombined = SectionsBy(B)
         /\ \A i \in 2..Len(frags) :
              (~IsHeadingStart(i) /\ encode_fails(Combined(B, i))) => i \notin B

\* Without a tokenizer, non-heading fragments were merged into a section far
\* above max_tokens words, and the split stage returned it as it was.
C16_Witness ==
  /\ pc = "recombined"
  /\ ~tok
  /\ Len(frags) = MaxFrags
  /\ HeadingCuts # {}
  /\ \E k \in 1..Len(recombined) :
       /\ WordCount(recombined[k]) > max_tokens
       /\ \E i \in 2..Len(frags) : ~IsHeadingStart(i) /\ recombined[k] = Combined(HeadingCuts, i)
  /\ final = merged

\* C19: with a tokenizer the sections are whole consecutive fragments, each
\* fragment in exactly one section and in order; a heading-start fragment
\* starts a section; a non-heading fragment is appended exactly when the
\* section so far, a blank line and the fragment count at most max_tokens, and
\* otherwise starts the next section whole; a section of two or more fragments
\* counts at most max_tokens.
C19_MergeWithinBudget ==
  (pc = "recombined" /\ tok) =>
    \E B \in CutSets :
      /\ recombined = SectionsBy(B)
      /\ \A i \in 2..Len(frags) :
           IF IsHeadingStart(i) THEN i \in B
           ELSE i \notin B <=> count_tokens(Combined(B, i)) <= max_tokens
      /\ \A k \in 1..Len(recombined) :
           NthEnd(B, k) > NthStart(B, k) => count_tokens(recombined[k]) <= max_tokens

\* One non-heading fragment was appended within the budget and the next one,
\* which would have gone over it, started a section of its own.
C19_Witness ==
  /\ pc = "recombined"
  /\ tok
  /\ Len(frags) = MaxFrags
  /\ ~IsHeadingStart(2)
  /\ ~IsHeadingStart(3)
  /\ recombined = SectionsBy({3})
  /\ count_tokens(recombined[1]) > 0
  /\ count_tokens(Combined({}, 3)) > max_tokens


----------------------------------------------------------------------------
(* Properties of the orphan-heading merge *)

\* Section i is a merge candidate: under 15 words, matching the heading
\* pattern, with a successor.
OrphanWithSuccessor(i) == IsOrphan(recombined[i]) /\ i < Len(recombined)

MergedPairs == {m \in 1..Len(msrc) : Len(msrc[m]) = 2}

\* C20: the output sections are made of the input sections 1, 2, ... in order,
\* each input section in exactly one output section; an output section is either
\* a merge candidate joined with its successor by a blank line, or a section
\* that is no merge candidate (or was consumed by the merge before it),
\* unchanged; the output has as many sections as the input less the merges.
C20_OrphansMerged ==
  pc = "recombined" =>
    /\ Len(merged) = Len(msrc)
    /\ Flatten(msrc) = [i \in 1..Len(recombined) |-> i]
    /\ \A m \in 1..Len(msrc) :
         LET i == msrc[m][1]
         IN IF Len(msrc[m]) = 2
            THEN /\ OrphanWithSuccessor(i)
                 /\ msrc[m][2] = i + 1
                 /\ merged[m] = JoinBlank2(recombined[i], recombined[i + 1])
            ELSE /\ Len(msrc[m]) = 1
                 /\ merged[m] = recombined[i]
                 /\ OrphanWithSuccessor(i) => (m > 1 /\ msrc[m - 1] = <<i - 1, i>>)
    /\ Len(merged) = Len(recombined) - Cardinality(MergedPairs)

\* Two heading-only sections in a row before a third section: the first took
\* the second, and the second was not merged with the third.
C20_Witness ==
  /\ pc = "recombined"
  /\ Len(recombined) = MaxFrags
  /\ IsOrphan(recombined[1])
  /\ IsOrphan(recombined[2])
  /\ msrc[1] = <<1, 2>>
  /\ Len(merged) = Len(recombined) - 1


----------------------------------------------------------------------------
(* Properties of split_long_table on chunks without a usable table *)

\* The first line of the chunk that starts with '|' (0: none).
TableStart == FirstIndex(chunk, TableLineKinds)

\* The lines of the first run of '|' lines.
FirstRun ==
  IF TableStart = 0 THEN {}
  ELSE {i \in TableStart..Len(chunk) :
          \A j \in TableStart..i : IsTableLine(chunk[j])}

\* The lines of the run that are no separator: the header row, then the data
\* rows.
RunRows == {i \in FirstRun : ~IsSeparator(chunk[i])}

\* C18: when the chunk has no line starting with '|', or the first run of '|'
\* lines has no header row or no data row, split_long_table returns the list
\* holding the chunk itself and nothing else.
C18_NoTableUnchanged ==
  (pc = "split_table" /\ Cardinality(RunRows) < 2) => subs = <<chunk>>

\* A header row with no data row under it, and two more '|' lines further
\* down the chunk: the chunk came back whole.
C18_Witness ==
  /\ pc = "split_table"
  /\ TableStart # 0
  /\ Cardinality(RunRows) = 1
  /\ CountLines(chunk, TableLineKinds) > Cardinality(FirstRun) + 1
  /\ subs = <<chunk>>


----------------------------------------------------------------------------
(* TextChunker.extract_heading_hierarchy *)

HierarchyMax == 3

\* line.startswith('#') on the stripped line
StartsHash(l) == l.k \in {"atx", "synth"}

\* lines[i + 1].strip().startswith('===')
IsEquals(l) == l.k = "eq"

\* The scan of extract_heading_hierarchy from line i on: (level, title) pairs,
\* the title given by the line it is taken from; the scan ends once limit
\* headings are collected.
RECURSIVE hierarchy_from(_, _, _, _)
hierarchy_from(lines, i, headings, limit) ==
  IF i > Len(lines) \/ Len(headings) >= limit THEN headings
  ELSE IF StartsHash(lines[i])
       THEN hierarchy_from(lines, i + 1,
                           Append(headings, [level |-> lines[i].n, line |-> lines[i],
                                             chars |-> lines[i].c - lines[i].n - 1]),
                           limit)
  ELSE IF i + 1 <= Len(lines) /\ IsEquals(lines[i + 1])
       THEN hierarchy_from(lines, i + 1,
                           Append(headings, [level |-> 1, line |-> lines[i],
                                             chars |-> Dedent(lines[i]).c]),
                           limit)
  ELSE IF i + 1 <= Len(lines) /\ IsDashes(lines[i + 1])
       THEN hierarchy_from(lines, i + 1,
                           Append(headings, [level |-> 2, line |-> lines[i],
                                             chars |-> Dedent(lines[i]).c]),
                           limit)
  ELSE hierarchy_from(lines, i + 1, headings, limit)

\* "Guide Section"
GuideSection == <<[indent |-> 0, hashes |-> 0, title |-> 0, c |-> 13]>>

\* f"{indent}{'#' * level} {title}" for each heading: the spaces in front, the
\* '#' characters, the line the title is the text of, and the length.
render_hierarchy(headings) ==
  IF headings = <<>> THEN GuideSection
  ELSE [k \in 1..Len(headings) |->
          [indent |-> 2 * (headings[k].level - 1),
           hashes |-> headings[k].level,
           title |-> headings[k].line.id,
           c |-> 2 * (headings[k].level - 1) + headings[k].level + 1 + headings[k].chars]]

\* The hierarchy of every heading of the chunk, however many.
extract_heading_hierarchy_unbounded(t) == render_hierarchy(hierarchy_from(t, 1, <<>>, Len(t) + 1))

extract_heading_hierarchy(t) == render_hierarchy(hierarchy_from(t, 1, <<>>, HierarchyMax))

----------------------------------------------------------------------------
(* extract_heading_hierarchy called on its own *)

MaxHierSegs == 3

Equals == L("eq", 0, <<1>>)

HierSegPool ==
  { <<H1>>,
    <<H2, T1(5)>>,
    <<H3, H2>>,
    <<Plain(2), Dash>>,
    <<Plain(2), Equals>>,
    <<Blank, Dash>>,
    <<Sub(2), Dash>>,
    <<T1(5)>>,
    <<Star(3), Blank>> }

HierChunks == {WithIds(Concat(q)) : q \in SeqsUpTo(HierSegPool, MaxHierSegs) \ {<<>>}}

InitHier ==
  /\ pc = "start"
  /\ tok = TRUE
  /\ chunk \in HierChunks
  /\ doc = Empty
  /\ cfg = DefaultCfg
  /\ grammar = "none"
  /\ frags = <<>>
  /\ recombined = <<>>
  /\ merged = <<>>
  /\ msrc = <<>>
  /\ final = <<>>
  /\ origin = <<>>
  /\ subs = <<>>
  /\ calls = <<>>
  /\ done = 0
  /\ err = "none"
  /\ DriverIdle

\* chunker.extract_heading_hierarchy(chunk)
ExtractHeadingHierarchy ==
  /\ pc = "start"
  /\ calls' = <<[op |-> "extract_heading_hierarchy", out |-> extract_heading_hierarchy(chunk)]>>
  /\ pc' = "hierarchy"
  /\ UNCHANGED <<driver, tok, frags, recombined, merged, msrc, final, origin, cfg, chunk, subs,
                 doc, grammar, done, err>>

NextHier == ExtractHeadingHierarchy

SpecHier == InitHier /\ [][NextHier]_vars

----------------------------------------------------------------------------
(* Properties of extract_heading_hierarchy *)

\* The lines the chunk's headings are: lines starting with '#', and lines
\* followed by a '===' or '---' underline.
HeadingLines ==
  {i \in 1..Len(chunk) :
     \/ StartsHash(chunk[i])
     \/ i < Len(chunk) /\ (IsEquals(chunk[i + 1]) \/ IsDashes(chunk[i + 1]))}

LevelOf(i) ==
  IF StartsHash(chunk[i]) THEN chunk[i].n
  ELSE IF IsEquals(chunk[i + 1]) THEN 1
  ELSE 2

\* The k-th heading line from the top.
NthHeading(k) ==
  CHOOSE i \in HeadingLines : Cardinality({j \in HeadingLines : j < i}) = k - 1

Hierarchy == calls[1].out

\* C17: the result is "Guide Section" exactly when the chunk has no heading
\* line; otherwise it lists the first three heading lines of the chunk (all of
\* them when there are fewer), top to bottom, each with 2 * (level - 1) spaces,
\* level '#' characters and the title of that line.
C17_HierarchyOfFirstThree ==
  pc = "hierarchy" =>
    /\ Hierarchy = GuideSection <=> HeadingLines = {}
    /\ HeadingLines # {} =>
         /\ Len(Hierarchy) = Min(HierarchyMax, Cardinality(HeadingLines))
         /\ \A k \in 1..Len(Hierarchy) :
              /\ Hierarchy[k].hashes = LevelOf(NthHeading(k))
              /\ Hierarchy[k].indent = 2 * (LevelOf(NthHeading(k)) - 1)
              /\ Hierarchy[k].title = chunk[NthHeading(k)].id

\* A chunk with more than three headings, of both styles: three were returned.
C17_Witness ==
  /\ pc = "hierarchy"
  /\ Cardinality(HeadingLines) > HierarchyMax
  /\ \E i \in HeadingLines : StartsHash(chunk[i])
  /\ \E i \in HeadingLines : ~StartsHash(chunk[i])
  /\ Len(Hierarchy) = HierarchyMax


----------------------------------------------------------------------------
(* Properties of the sub-chunks of one oversized section *)

\* Section m was found over budget by _split_oversized_chunks.
Oversized(m) == tok /\ count_tokens(merged[m]) > max_tokens

\* The final chunk that is the N-th sub-chunk of section m.
NthOf(m, N) == CHOOSE j \in FinalOf(m) : Cardinality({q \in FinalOf(m) : q < j}) = N - 1

\* The heading line _extract_heading took from section m.
HeadingLineOf(m) == extract_heading(merged[m]).heading_line

StartsWithHeadingOf(m, j) ==
  /\ Len(final[j]) > Len(HeadingLineOf(m))
  /\ SubSeq(final[j], 1, Len(HeadingLineOf(m))) = HeadingLineOf(m)
  /\ IsBlank(final[j][Len(HeadingLineOf(m)) + 1])

\* C21: of the M sub-chunks of an oversized section every one starts with the
\* heading line of the section; with M >= 2 the first ends with "Continued in
\* Part 2" and the N-th, N >= 2, has "Part N of M - Continued" right under the
\* heading and no other marker; with M = 1 the sub-chunk has no marker.
C21_HeadingAndMarkers ==
  AfterSplit =>
    \A m \in 1..Len(merged) :
      Oversized(m) =>
        LET M == Cardinality(FinalOf(m))
            hl == Len(HeadingLineOf(m))
        IN \A N \in 1..M :
             LET sub == final[NthOf(m, N)]
                 markers == {i \in 1..Len(sub) : IsMarker(sub[i])}
             IN /\ StartsWithHeadingOf(m, NthOf(m, N))
                /\ IF M = 1 THEN markers = {}
                   ELSE IF N = 1
                        THEN /\ sub[Len(sub)] = ContinuedIn(2)
                             /\ markers = {Len(sub)}
                        ELSE /\ sub[hl + 2] = PartOf(N, M)
                             /\ markers = {hl + 2}

\* One section gave three or more sub-chunks and another one a single one.
C21_Witness ==
  /\ AfterSplit
  /\ \E m, n \in 1..Len(merged) :
       /\ Oversized(m)
       /\ Cardinality(FinalOf(m)) >= 3
       /\ Oversized(n)
       /\ Cardinality(FinalOf(n)) = 1


----------------------------------------------------------------------------
(* _split_oversized_chunks on one section built from blocks *)

MaxBlocks == 3

BlockPool ==
  { <<T1(5)>>,
    <<T1(1600)>>,
    <<T1(1798)>>,
    <<T2(1750, 1749)>>,
    <<T1(3495)>>,
    <<Star(1600)>> }

\* '## Title' and the blocks under it, a blank line in front of each.
RECURSIVE UnderHeading(_)
UnderHeading(bs) ==
  IF bs = <<>> THEN <<H2>>
  ELSE UnderHeading(SubSeq(bs, 1, Len(bs) - 1)) \o <<Blank>> \o bs[Len(bs)]

BlockSections == {UnderHeading(bs) : bs \in SeqsUpTo(BlockPool, MaxBlocks)}

InitSub ==
  /\ pc = "start"
  /\ tok = TRUE
  /\ \E sec \in BlockSections : frags = <<sec>>
  /\ recombined = <<>>
  /\ merged = <<>>
  /\ msrc = <<>>
  /\ final = <<>>
  /\ origin = <<>>
  /\ cfg = DefaultCfg
  /\ chunk = Empty
  /\ subs = <<>>
  /\ calls = <<>>
  /\ doc = Empty
  /\ grammar = "none"
  /\ done = 0
  /\ err = "none"
  /\ DriverIdle

NextSub == SplitOversizedChunks

SpecSub == InitSub /\ [][NextSub]_vars

----------------------------------------------------------------------------
(* Properties of the packing loop *)

\* max_tokens - (tokens of the heading text + 100) for the section final chunk
\* j came from.
EffectiveBudget(j) ==
  max_tokens - (count_tokens(HeadingOf(j).main_heading) + ReserveTokens)

\* C22: the token total of the body of every sub-chunk of a split section is
\* at most max_tokens - (heading tokens + 100), unless the body is one sentence
\* (or one block without a sentence end) that alone is above it; also for the
\* sub-chunk that starts with the last sentence group of a sentence-split
\* block and goes on with later blocks.
C22_PackedWithinEffectiveBudget ==
  AfterSplit =>
    \A j \in 1..Len(final) :
      WasSplit(j) =>
        \/ count_tokens(SubChunkBody(j)) <= EffectiveBudget(j)
        \/ OneSentenceOver(SubChunkBody(j), EffectiveBudget(j))

\* A sub-chunk whose body is the last sentence of a sentence-split block
\* followed by a later block.
C22_Witness ==
  /\ AfterSplit
  /\ \E j \in 1..Len(final) :
       /\ WasSplit(j)
       /\ SubChunkBody(j)[1].s = <<1749>>
       /\ Len(SubChunkBody(j)) >= 3
       /\ count_tokens(SubChunkBody(j)) > count_tokens(<<SubChunkBody(j)[1]>>)
       /\ count_tokens(SubChunkBody(j)) <= EffectiveBudget(j)


----------------------------------------------------------------------------
(* The detectors called on their own *)

MaxDetectSegs == 3

DetectSegPool ==
  { <<Star(3)>>,
    <<BStar(3)>>,
    <<Sub(2)>>,
    <<Star(3), Sub(2), Sub(2)>>,
    <<BStar(3), Sub(2), Sub(2)>>,
    <<Minus(3), Minus(3), Star(3)>>,
    <<Blank, Blank, Blank>>,
    <<Blank, Blank, Blank, Blank>>,
    <<T1(5)>>,
    <<PartOf(2, 3)>>,
    <<TRow, TSep, TRow, TRow>>,
    <<TRow, TRow>> }

DetectChunks == {Concat(q) : q \in SeqsUpTo(DetectSegPool, MaxDetectSegs) \ {<<>>}}

InitDetect ==
  /\ pc = "start"
  /\ tok = TRUE
  /\ cfg = SmallCfg
  /\ chunk \in DetectChunks
  /\ frags = <<>>
  /\ recombined = <<>>
  /\ merged = <<>>
  /\ msrc = <<>>
  /\ final = <<>>
  /\ origin = <<>>
  /\ subs = <<>>
  /\ calls = <<>>
  /\ doc = Empty
  /\ grammar = "none"
  /\ done = 0
  /\ err = "none"
  /\ DriverIdle

\* splitter.detect_long_list(chunk)
DetectLongList ==
  /\ pc = "start"
  /\ calls' = <<[op |-> "detect_long_list", out |-> detect_long_list(cfg, chunk)]>>
  /\ pc' = "detected"
  /\ UNCHANGED <<driver, tok, frags, recombined, merged, msrc, final, origin, cfg, chunk, subs,
                 doc, grammar, done, err>>

\* splitter.detect_long_table(chunk)
DetectLongTable ==
  /\ pc = "start"
  /\ calls' = <<[op |-> "detect_long_table", out |-> detect_long_table(cfg, chunk)]>>
  /\ pc' = "detected"
  /\ UNCHANGED <<driver, tok, frags, recombined, merged, msrc, final, origin, cfg, chunk, subs,
                 doc, grammar, done, err>>

\* splitter.detect_nested_bullet_table(chunk)
DetectNestedBulletTable ==
  /\ pc = "start"
  /\ calls' = <<[op |-> "detect_nested_bullet_table",
                 out |-> detect_nested_bullet_table(cfg, chunk)]>>
  /\ pc' = "detected"
  /\ UNCHANGED <<driver, tok, frags, recombined, merged, msrc, final, origin, cfg, chunk, subs,
                 doc, grammar, done, err>>

NextDetect == DetectLongList \/ DetectLongTable \/ DetectNestedBulletTable

SpecDetect == InitDetect /\ [][NextDetect]_vars

----------------------------------------------------------------------------
(* Properties of detect_nested_bullet_table *)

Detected(op) == pc = "detected" /\ calls[1].op = op

\* The unindented '*' bullets of the chunk, and those of them whose text begins
\* with a word character or '['.
StarBullets == {i \in 1..Len(chunk) : IsStarBullet(chunk[i])}
WordBullets == {i \in 1..Len(chunk) : IsMainBullet(chunk[i])}

\* With the bullets O taken as the ones that open a group: the indented bullets
\* of the group of bullet i, the groups, and the nested items.
NestedUnder(O, i) ==
  {j \in (i + 1)..Len(chunk) :
     IsNestedBullet(chunk[j]) /\ \A k \in O : ~(i < k /\ k < j)}

NestedGroups(O) == {i \in O : NestedUnder(O, i) # {}}

NestedItems(O) == {j \in 1..Len(chunk) : IsNestedBullet(chunk[j]) /\ \E i \in O : i < j}

ThresholdReached(O) ==
  \/ Cardinality(NestedGroups(O)) >= cfg.min_nested_groups
  \/ Cardinality(NestedItems(O)) >= cfg.min_nested_items

\* C23 as stated: the detector returns true exactly when the groups opened by
\* the unindented '*' bullets number min_nested_groups or more, or their nested
\* items min_nested_items or more.
C23_AnyStarBulletOpensGroup ==
  Detected("detect_nested_bullet_table") => (calls[1].out <=> ThresholdReached(StarBullets))

\* C23 amended: the same with a group opened only by an unindented '*' bullet
\* whose text begins with a word character or '['; with one group less than
\* min_nested_groups and one item less than min_nested_items the chunk is not
\* detected.
C23_WordBulletOpensGroup ==
  Detected("detect_nested_bullet_table") =>
    /\ calls[1].out <=> ThresholdReached(WordBullets)
    /\ (/\ Cardinality(NestedGroups(WordBullets)) = cfg.min_nested_groups - 1
        /\ Cardinality(NestedItems(WordBullets)) = cfg.min_nested_items - 1)
         => ~calls[1].out

\* Detected by the number of nested items alone, with a bold bullet and its
\* sub-bullets in the chunk.
C23_Witness ==
  /\ Detected("detect_nested_bullet_table")
  /\ calls[1].out
  /\ Cardinality(NestedGroups(WordBullets)) < cfg.min_nested_groups
  /\ StarBullets # WordBullets
  /\ Cardinality(NestedItems(WordBullets)) >= cfg.min_nested_items


----------------------------------------------------------------------------
(* Properties of detect_long_list *)

\* Some unindented '*' bullet has an indented bullet on one of the w lines
\* after it, with only blank lines and unindented '*' bullets in between.
NestedWithin(w) ==
  \E i \in StarBullets : \E j \in (i + 1)..Min(i + w, Len(chunk)) :
    /\ IsNestedBullet(chunk[j])
    /\ \A k \in (i + 1)..(j - 1) : IsBlank(chunk[k]) \/ IsStarBullet(chunk[k])

TopLevelItems == {i \in 1..Len(chunk) : IsMainItem(chunk[i])}

LongListWithWindow(w) ==
  IF NestedWithin(w) THEN ~calls[1].out
  ELSE calls[1].out <=> Cardinality(TopLevelItems) >= cfg.min_long_list

----------------------------------------------------------------------------
(* Properties of the numbered headings of Grammar C *)

\* Line i of the document starts a fragment.
StartsFragment(i) == \E f \in 1..Len(frags) : frags[f][1].id = i

\* A '***' divider is one of the first HrWindow non-blank lines after line i.
HrAmongNonBlank(i) ==
  \E j \in (i + 1)..Len(doc) :
    /\ IsHr(doc[j])
    /\ Cardinality({k \in (i + 1)..(j - 1) : ~IsBlank(doc[k])}) < HrWindow

NumberedChecked ==
  /\ pc = "fragments"
  /\ grammar = "C"
  /\ cfg.include_numbered
  /\ cfg.numbered_requires_hr
  /\ ~cfg.merge_short_preamble

\* A numbered line that starts a fragment only if it is a split boundary as a
\* numbered heading: text comes before it and no underline after it.
NumberedInside(i) ==
  /\ doc[i].k = "num"
  /\ \E k \in 1..(i - 1) : ~IsBlank(doc[k])
  /\ ~(i < Len(doc) /\ IsUnderline(doc[i + 1]))

\* C25 as stated: a numbered line starts a fragment exactly when a '***'
\* divider is among the first three non-blank lines after it, blank lines not
\* counted.
C25_DividerAmongThreeNonBlank ==
  NumberedChecked =>
    \A i \in 1..Len(doc) :
      NumberedInside(i) => (StartsFragment(i) <=> HrAmongNonBlank(i))


----------------------------------------------------------------------------
(* process_url, step 5: every sub-chunk of every final chunk goes to the
   generator, up to retry_limit times *)

MaxGenChunks == 2

\* The values of generation.retry_limit.
RetryLimits == 0..2

\* What generate_from_chunk may return: the number of records written, 0 when
\* it failed (it catches every exception).
RecordCounts == {0, 1, 2}

GenChunkPool ==
  { <<H2, Blank, T1(5)>>,
    <<Star(3), Star(3), Star(3)>> }

\* The configuration: the splitter's thresholds and generation.retry_limit.
GenCfg(r) ==
  [f \in DOMAIN SmallCfg \cup {"retry_limit"} |->
     IF f = "retry_limit" THEN r ELSE SmallCfg[f]]

\* The attempt loop that goes on after a successful attempt.
generation_step_no_break(total, att, records, limit) ==
  [total |-> IF records > 0 THEN total + records ELSE total,
   stop |-> att + 1 >= limit]

\* One round of "for attempt in range(retry_limit)": the new total, and whether
\* the loop ends (break, or the range is used up).
generation_step(total, att, records, limit) ==
  [total |-> IF records > 0 THEN total + records ELSE total,
   stop |-> records > 0 \/ att + 1 >= limit]

InitGen ==
  /\ pc = "gen_chunk"
  /\ tok = TRUE
  /\ final \in SeqsUpTo(GenChunkPool, MaxGenChunks)
  /\ \E r \in RetryLimits : cfg = GenCfg(r)
  /\ chunk = Empty
  /\ frags = <<>>
  /\ recombined = <<>>
  /\ merged = <<>>
  /\ msrc = <<>>
  /\ origin = <<>>
  /\ subs = <<>>
  /\ calls = <<>>
  /\ doc = Empty
  /\ grammar = "none"
  /\ done = 0
  /\ err = "none"
  /\ DriverIdle

\* "for i, chunk in enumerate(final_chunks)": the next chunk goes through
\* _handle_long_structures; with no sub-chunk or no attempt allowed the round
\* is over at once.
HandleNextChunk ==
  /\ pc = "gen_chunk"
  /\ done < Len(final)
  /\ LET r == handle_long_structures(cfg, final[done + 1])
     IN /\ chunk' = final[done + 1]
        /\ subs' = r.out
        /\ IF r.out = <<>> \/ cfg.retry_limit <= 0
           THEN /\ done' = done + 1
                /\ sub_idx' = 0
                /\ pc' = "gen_chunk"
           ELSE /\ done' = done
                /\ sub_idx' = 1
                /\ pc' = "gen_sub"
  /\ attempt' = 0
  /\ UNCHANGED <<tok, frags, recombined, merged, msrc, final, origin, cfg, calls, doc,
                 grammar, err, total_records, links, to_process, processed>>

\* One attempt: generate_from_chunk(source_text=sub_chunk, ...,
\* heading_context=heading_context), then the test of its result.
GenerateFromChunk ==
  /\ pc = "gen_sub"
  /\ LET sub_chunk == subs[sub_idx]
         heading_context == extract_heading_hierarchy(sub_chunk)
     IN \E records \in (IF sub_chunk = Empty THEN {0} ELSE RecordCounts) :
          LET r == generation_step(total_records, attempt, records, cfg.retry_limit)
          IN /\ calls' = Append(calls, [op |-> "generate_from_chunk",
                                        chunk |-> done + 1, sub |-> sub_idx,
                                        source_text |-> sub_chunk,
                                        heading_context |-> heading_context,
                                        out |-> records])
             /\ total_records' = r.total
             /\ IF ~r.stop
                THEN /\ attempt' = attempt + 1
                     /\ UNCHANGED <<sub_idx, done, pc>>
                ELSE /\ attempt' = 0
                     /\ IF sub_idx < Len(subs)
                        THEN /\ sub_idx' = sub_idx + 1
                             /\ UNCHANGED <<done, pc>>
                        ELSE /\ sub_idx' = 0
                             /\ done' = done + 1
                             /\ pc' = "gen_chunk"
  /\ UNCHANGED <<tok, frags, recombined, merged, msrc, final, origin, cfg, chunk, subs, doc,
                 grammar, err, links, to_process, processed>>

\* return total_records
ReturnTotal ==
  /\ pc = "gen_chunk"
  /\ done = Len(final)
  /\ pc' = "returned"
  /\ UNCHANGED <<driver, tok, frags, recombined, merged, msrc, final, origin, cfg, chunk, subs,
                 calls, doc, grammar, done, err>>

NextGen == HandleNextChunk \/ GenerateFromChunk \/ ReturnTotal

SpecGen == InitGen /\ [][NextGen]_vars

\* The loop is sequential code and every call of the generator returns.
SpecGenLive == SpecGen /\ WF_vars(NextGen)

\* The sub-chunks of final chunk i.
SubChunksOf(i) == handle_long_structures(cfg, final[i]).out

\* The attempts made on sub-chunk j of chunk i, as places in the log.
Attempts(i, j) == {k \in 1..Len(calls) : calls[k].chunk = i /\ calls[k].sub = j}

LastAttempt(k) == \A n \in (k + 1)..Len(calls) :
                    ~(calls[n].chunk = calls[k].chunk /\ calls[n].sub = calls[k].sub)

RECURSIVE CountedRecords(_)
CountedRecords(k) ==
  IF k = 0 THEN 0
  ELSE CountedRecords(k - 1) + (IF LastAttempt(k) THEN calls[k].out ELSE 0)

\* Sub-chunk j of chunk i is finished: an attempt succeeded or all were made.
Finished(i, j) ==
  \/ \E k \in Attempts(i, j) : calls[k].out > 0
  \/ Cardinality(Attempts(i, j)) = cfg.retry_limit

\* Entry n of the log is about the sub-chunk that follows the one of entry k,
\* sc the sub-chunks of every chunk.
Follows(sc, k, n) ==
  \/ calls[n].chunk = calls[k].chunk /\ calls[n].sub = calls[k].sub + 1
  \/ /\ calls[n].chunk = calls[k].chunk + 1
     /\ calls[n].sub = 1
     /\ calls[k].sub = Len(sc[calls[k].chunk])

GenerationLog ==
  LET sc == [i \in 1..Len(final) |-> SubChunksOf(i)]
  IN /\ \A k \in 1..Len(calls) :
          LET i == calls[k].chunk
              j == calls[k].sub
          IN /\ i \in 1..Len(final)
             /\ j \in 1..Len(sc[i])
             /\ calls[k].source_text = sc[i][j]
             /\ calls[k].heading_context = extract_heading_hierarchy(sc[i][j])
             /\ Cardinality(Attempts(i, j)) <= cfg.retry_limit
             /\ calls[k].out > 0 => LastAttempt(k)
             /\ k < Len(calls) =>
                  \/ calls[k + 1].chunk = i /\ calls[k + 1].sub = j /\ calls[k].out = 0
                  \/ Finished(i, j) /\ Follows(sc, k, k + 1)
     /\ total_records = CountedRecords(Len(calls))
     /\ (pc = "returned" /\ cfg.retry_limit > 0) =>
          \A i \in 1..Len(final) : \A j \in 1..Len(sc[i]) : Finished(i, j)

\* C26: every sub-chunk goes to generate_from_chunk at most retry_limit times,
\* each time with the same text and heading context; no attempt follows one
\* that returned more than 0 records, and the total is the sum of the counts of
\* those attempts; sub-chunks are taken in order, the next one after a success
\* or after retry_limit failures, and process_url returns with every sub-chunk
\* of every chunk finished.
C26_RetryLoop ==
  /\ []GenerationLog
  /\ <>(pc = "returned")

\* process_url returned after a sub-chunk failed twice, the next one succeeded
\* at its second attempt and a later one at its first, with different counts.
C26_Witness ==
  /\ pc = "returned"
  /\ cfg.retry_limit = 2
  /\ \E a, b, c \in 1..Len(calls) :
       /\ a + 1 < b /\ b < c
       /\ calls[a].out = 0 /\ calls[a + 1].out = 0
       /\ Attempts(calls[a].chunk, calls[a].sub) = {a, a + 1}
       /\ calls[b - 1].out = 0 /\ calls[b].out = 2
       /\ Attempts(calls[b].chunk, calls[b].sub) = {b - 1, b}
       /\ calls[c].out = 1
       /\ Attempts(calls[c].chunk, calls[c].sub) = {c}
       /\ total_records >= 3
       /\ calls[c].heading_context # calls[a].heading_context


----------------------------------------------------------------------------
(* run_batch_mode: the links of the markdown file that are not in the
   processed-links file go to process_url, one after the other *)

MaxLinks == 3

Urls == {"u1", "u2", "u3", "u4"}

\* What process_url may return: the records of the URL, 0 when nothing was
\* generated.
UrlRecords == {0, 2}

\* scraper.rate_limit, requests per minute: the default, none, and a negative one.
RateLimits == {20, 0, -20}

\* extract_links_from_markdown: the links of the file, each one once, in the
\* order of their first occurrence.
AllLinks == {q \in SeqsUpTo(Urls, MaxLinks) : \A i, j \in 1..Len(q) : q[i] = q[j] => i = j}

\* The lines of the processed-links file, as earlier runs left it.
LinksFiles == {<<>>, <<"u1">>, <<"u2", "u1">>, <<"u3", "u3">>}

SetOf(q) == {q[i] : i \in 1..Len(q)}

\* A run that takes every link, processed or not.
links_to_process_unfiltered(all_links, processed_links) == all_links

\* [link for link in all_links if link not in processed_links]
RECURSIVE links_to_process(_, _)
links_to_process(all_links, processed_links) ==
  IF all_links = <<>> THEN <<>>
  ELSE (IF Head(all_links) \in processed_links THEN <<>> ELSE <<Head(all_links)>>)
         \o links_to_process(Tail(all_links), processed_links)

InitBatch ==
  /\ pc = "start"
  /\ tok = TRUE
  /\ links \in AllLinks
  /\ processed \in LinksFiles
  /\ \E r \in RateLimits : cfg = [rate_limit |-> r]
  /\ to_process = <<>>
  /\ sub_idx = 0
  /\ attempt = 0
  /\ total_records = 0
  /\ chunk = Empty
  /\ frags = <<>>
  /\ recombined = <<>>
  /\ merged = <<>>
  /\ msrc = <<>>
  /\ final = <<>>
  /\ origin = <<>>
  /\ subs = <<>>
  /\ calls = <<>>
  /\ doc = Empty
  /\ grammar = "none"
  /\ done = 0
  /\ err = "none"

\* run_batch_mode up to its loop: the links are read, those in the set that
\* get_processed_links returns are left out (the set is empty when the file
\* cannot be read), and scraper_sleep = 60 / rate_limit is computed.
LoadLinks ==
  /\ pc = "start"
  /\ \E read_ok \in BOOLEAN :
       LET processed_links == IF read_ok THEN SetOf(processed) ELSE {}
           todo == links_to_process(links, processed_links)
       IN /\ to_process' = todo
          /\ calls' = <<[op |-> "get_processed_links", link |-> "", ok |-> read_ok,
                         records |-> 0, file |-> processed]>>
          /\ IF todo = <<>> THEN pc' = "returned" /\ err' = "none"
             ELSE IF cfg.rate_limit = 0
                  THEN pc' = "raised" /\ err' = "ZeroDivisionError"
             ELSE pc' = "batch" /\ err' = "none"
  /\ UNCHANGED <<tok, frags, recombined, merged, msrc, final, origin, cfg, chunk, subs, doc,
                 grammar, done, sub_idx, attempt, total_records, links, processed>>

\* One round of "for idx, link in enumerate(links_to_process)": process_url
\* returns a number of records or raises; after a return the link is marked,
\* which appends it to the file unless the write fails; then the pause.
ProcessLink ==
  /\ pc = "batch"
  /\ done < Len(to_process)
  /\ LET link == to_process[done + 1]
     IN \E raised \in BOOLEAN : \E records \in UrlRecords : \E write_ok \in BOOLEAN :
          /\ IF raised
             THEN /\ records = 0
                  /\ write_ok
                  /\ calls' = Append(calls, [op |-> "process_url", link |-> link,
                                              ok |-> FALSE, records |-> 0])
                  /\ UNCHANGED <<total_records, processed>>
             ELSE /\ total_records' = total_records + records
                  /\ processed' = IF write_ok THEN Append(processed, link) ELSE processed
                  /\ calls' = calls \o
                       <<[op |-> "process_url", link |-> link, ok |-> TRUE,
                          records |-> records],
                         [op |-> "mark_as_processed", link |-> link, ok |-> write_ok,
                          records |-> 0]>>
          /\ done' = done + 1
          /\ IF done + 1 = Len(to_process) THEN pc' = "returned" /\ err' = "none"
             ELSE IF cfg.rate_limit < 0
                  THEN pc' = "raised" /\ err' = "ValueError"
             ELSE pc' = "batch" /\ err' = "none"
  /\ UNCHANGED <<tok, frags, recombined, merged, msrc, final, origin, cfg, chunk, subs, doc,
                 grammar, sub_idx, attempt, links, to_process>>

NextBatch == LoadLinks \/ ProcessLink

SpecBatch == InitBatch /\ [][NextBatch]_vars

\* Every call of process_url returns or raises.
SpecBatchLive == SpecBatch /\ WF_vars(NextBatch)


\* The links of the entries of the log made by op, in order; with ok_only,
\* of those that went well.
RECURSIVE Logged(_, _, _)
Logged(log, op, ok_only) ==
  IF log = <<>> THEN <<>>
  ELSE (IF Head(log).op = op /\ (ok_only => Head(log).ok) THEN <<Head(log).link>> ELSE <<>>)
         \o Logged(Tail(log), op, ok_only)

Passed == Logged(calls, "process_url", FALSE)

ReturnedLinks == Logged(calls, "process_url", TRUE)

Marked == Logged(calls, "mark_as_processed", TRUE)

FileAtStart == calls[1].file

Appended == SubSeq(processed, Len(FileAtStart) + 1, Len(processed))

\* q without the members of S
RECURSIVE Without(_, _)
Without(q, S) ==
  IF q = <<>> THEN <<>>
  ELSE (IF Head(q) \in S THEN <<>> ELSE <<Head(q)>>) \o Without(Tail(q), S)

IsPrefix(p, q) == Len(p) <= Len(q) /\ p = SubSeq(q, 1, Len(p))

RunOver == pc \in {"returned", "raised"}

\* C27 as stated: no link of the file as it was at the start goes to
\* process_url, the other links go to it once each in the order of the
\* markdown file, all of them by the end of the run, and the links appended to
\* the file are those whose call returned.
C27_AsStated ==
  pc # "start" =>
    /\ \A i \in 1..Len(Passed) : Passed[i] \notin SetOf(FileAtStart)
    /\ IsPrefix(Passed, Without(links, SetOf(FileAtStart)))
    /\ RunOver => Passed = Without(links, SetOf(FileAtStart))
    /\ Appended = ReturnedLinks

\* The log of a run: the links that get_processed_links returned (none when the
\* file could not be read) are left out, the others go to process_url once each
\* in the order of the markdown file; mark_as_processed is called after every
\* call that returned and after no other, and the file grows by the links whose
\* write went well; the run ends early only on rate_limit: before the first
\* link when it is 0, after the first of several links when it is negative.
BatchLog ==
  pc # "start" =>
    LET known == IF calls[1].ok THEN SetOf(FileAtStart) ELSE {}
        todo == Without(links, known)
    IN /\ IsPrefix(Passed, todo)
       /\ pc = "returned" => Passed = todo
       /\ pc = "raised" =>
            \/ cfg.rate_limit = 0 /\ Passed = <<>> /\ todo # <<>>
            \/ cfg.rate_limit < 0 /\ Len(Passed) = 1 /\ Len(todo) > 1
       /\ \A k \in 2..Len(calls) :
            /\ calls[k].op = "mark_as_processed" =>
                 /\ calls[k - 1].op = "process_url"
                 /\ calls[k - 1].ok
                 /\ calls[k - 1].link = calls[k].link
            /\ (calls[k].op = "process_url" /\ calls[k].ok) =>
                 /\ k < Len(calls)
                 /\ calls[k + 1].op = "mark_as_processed"
       /\ Appended = Marked
       /\ processed = FileAtStart \o Appended

\* C27 amended: the log of every run is as BatchLog says, and the run comes to
\* its end: with a positive rate_limit it returns, every link that was to be
\* processed having gone to process_url, whatever raised on the way.
C27_BatchRun ==
  /\ []BatchLog
  /\ <>(pc = "returned" \/ (pc = "raised" /\ cfg.rate_limit <= 0))

\* A run that returned: a link of the file was left out, the next link raised
\* and stayed unmarked, the one after it returned 0 records and was appended.
C27_Witness ==
  /\ pc = "returned"
  /\ calls[1].ok
  /\ Len(links) = 3
  /\ links[1] \in SetOf(FileAtStart)
  /\ Len(calls) = 4
  /\ calls[2].op = "process_url" /\ ~calls[2].ok /\ calls[2].link = links[2]
  /\ calls[3].op = "process_url" /\ calls[3].ok /\ calls[3].records = 0
  /\ calls[3].link = links[3]
  /\ Appended = <<links[3]>>
  /\ links[2] \notin SetOf(processed)


----------------------------------------------------------------------------
(* What an oversized section leaves in the output *)

\* C28: every section _split_oversized_chunks finds over budget has at least
\* one sub-chunk in the output, and the output has at least as many chunks as
\* the input has sections.
C28_EverySectionContributes ==
  AfterSplit =>
    /\ \A m \in 1..Len(merged) : Oversized(m) => FinalOf(m) # {}
    /\ Len(final) >= Len(merged)


----------------------------------------------------------------------------
(* What _merge_orphaned_headings leaves behind *)

\* C29: after _merge_orphaned_headings no section but the last is an orphan
\* heading, that is, has fewer than 15 words and matches the heading pattern.
C29_NoOrphanLeft ==
  pc = "recombined" =>
    \A m \in 1..(Len(merged) - 1) : ~IsOrphan(merged[m])


----------------------------------------------------------------------------
(* _handle_long_structures applied to its own output *)

\* C30: with the default thresholds every sub-chunk that
\* _handle_long_structures produced is returned by it unchanged, as a single
\* element, and none of the three detectors finds a long structure in it.
C30_NoSecondSplit ==
  (pc = "handled" /\ cfg = DefaultCfg) =>
    \A j \in 1..Len(subs) :
      /\ handle_long_structures(cfg, subs[j]).out = <<subs[j]>>
      /\ ~detect_nested_bullet_table(cfg, subs[j])
      /\ ~detect_long_table(cfg, subs[j])
      /\ ~detect_long_list(cfg, subs[j])

============================================================================
